---- MODULE Spec2Model ----
(***************************************************************************)
(* Model of the route API worker of maroowell.com (src/unnamed/part_002,   *)
(* the worker with the camps and vendors tables).  The backing store is a  *)
(* PostgREST-style black box: the three tables are state, every upstream   *)
(* call either fails or answers from the table.                            *)
(*                                                                         *)
(* Text is a sequence of character codes, so that trimming, lowercasing,   *)
(* hashing and JSON encoding are computed as the code computes them.       *)
(* A JavaScript value is a tagged record: Null, Undef, Str, Num, Arr, Hex. *)
(***************************************************************************)
EXTENDS Integers, Sequences, FiniteSets, TLC

VARIABLES
    routes,         \* the subsubroutes table: a set of rows (records)
    vendors,        \* the vendors table
    camps,          \* the camps table
    polygonAsText,  \* TRUE: the polygon_wgs84 column is text, FALSE: json
    pending,        \* POST /route without id, suspended between lookup and write
    resp            \* the response of the request handled last, with its upstream calls

vars == <<routes, vendors, camps, polygonAsText, pending, resp>>

----------------------------------------------------------------------------
(* JavaScript values *)

Null == [t |-> "null"]
Undef == [t |-> "undef"]
Str(s) == [t |-> "str", s |-> s]
Num(n) == [t |-> "num", n |-> n]
Arr(a) == [t |-> "arr", a |-> a]
Hex(h) == [t |-> "str", hex |-> h]

IsNullish(v) == v.t \in {"null", "undef"}
IsText(v) == v.t = "str" /\ "s" \in DOMAIN v

\* a ?? b
Coalesce(a, b) == IF IsNullish(a) THEN b ELSE a

\* !v
Falsy(v) ==
    \/ IsNullish(v)
    \/ (IsText(v) /\ v.s = <<>>)
    \/ (v.t = "num" /\ v.n = 0)

\* the value of a set of one value: Only({ e(v) : v \in {x} }) is e(x) with
\* x computed once (const v = x; then e)
Only(S) == CHOOSE y \in S : TRUE

\* body[k] of a parsed JSON object: undefined when the key is absent
Get(obj, k) == IF k \in DOMAIN obj THEN obj[k] ELSE Undef

----------------------------------------------------------------------------
(* Text *)

WhiteSpace == {9, 10, 13, 32}
DigitChars == 48..57

RECURSIVE TrimStart(_)
TrimStart(s) ==
    IF s # <<>> /\ Head(s) \in WhiteSpace THEN TrimStart(Tail(s)) ELSE s

RECURSIVE TrimEnd(_)
TrimEnd(s) ==
    IF s # <<>> /\ s[Len(s)] \in WhiteSpace
    THEN TrimEnd(SubSeq(s, 1, Len(s) - 1))
    ELSE s

Trim(s) == TrimEnd(TrimStart(s))

RECURSIVE DecimalDigits(_)
DecimalDigits(n) ==
    IF n < 10 THEN <<48 + n>> ELSE Append(DecimalDigits(n \div 10), 48 + (n % 10))

\* String(v) for the values the model holds
ToText(v) ==
    IF IsText(v) THEN v.s
    ELSE IF v.t = "num" THEN (IF v.n < 0 THEN <<45>> \o DecimalDigits(-v.n) ELSE DecimalDigits(v.n))
    ELSE <<>>

ToLowerCase(s) == [i \in 1..Len(s) |-> IF s[i] \in 65..90 THEN s[i] + 32 ELSE s[i]]

StartsWith(s, p) == Len(p) <= Len(s) /\ SubSeq(s, 1, Len(p)) = p

\* s < t in the store's ordering of text (code units, shorter prefix first)
RECURSIVE TextLess(_, _)
TextLess(s, t) ==
    IF s = <<>> THEN t # <<>>
    ELSE IF t = <<>> THEN FALSE
    ELSE IF Head(s) # Head(t) THEN Head(s) < Head(t)
    ELSE TextLess(Tail(s), Tail(t))

safeTrim(v) == Trim(ToText(Coalesce(v, Str(<<>>))))

\* the key without toLowerCase
normalizeCampKeyAsWritten(v) == safeTrim(v)

normalizeCampKey(v) == ToLowerCase(safeTrim(v))

RECURSIVE KeepDigits(_)
KeepDigits(s) ==
    IF s = <<>> THEN <<>>
    ELSE IF Head(s) \in DigitChars THEN <<Head(s)>> \o KeepDigits(Tail(s))
    ELSE KeepDigits(Tail(s))

digitsOnly(v) == KeepDigits(safeTrim(v))

normalizeBusinessNumber(v) ==
    LET d == digitsOnly(v) IN
    IF Len(d) = 10
    THEN SubSeq(d, 1, 3) \o <<45>> \o SubSeq(d, 4, 5) \o <<45>> \o SubSeq(d, 6, 10)
    ELSE safeTrim(v)

----------------------------------------------------------------------------
(* JSON text of a value, and its parse *)

RECURSIVE JsonStringify(_)
RECURSIVE JoinItems(_)
JoinItems(a) ==
    IF a = <<>> THEN <<>>
    ELSE IF Len(a) = 1 THEN JsonStringify(a[1])
    ELSE JsonStringify(a[1]) \o <<44>> \o JoinItems(Tail(a))

JsonStringify(v) ==
    IF v.t = "num" THEN ToText(v)
    ELSE IF v.t = "arr" THEN <<91>> \o JoinItems(v.a) \o <<93>>
    ELSE IF IsText(v) THEN <<34>> \o v.s \o <<34>>
    ELSE <<110, 117, 108, 108>>

ParseFail == [ok |-> FALSE, val |-> Null, rest |-> <<>>]

RECURSIVE ParseDigits(_, _)
ParseDigits(s, n) ==
    IF s # <<>> /\ Head(s) \in DigitChars
    THEN ParseDigits(Tail(s), 10 * n + (Head(s) - 48))
    ELSE [ok |-> TRUE, val |-> Num(n), rest |-> s]

RECURSIVE ParseText(_, _)
ParseText(s, acc) ==
    IF s = <<>> THEN ParseFail
    ELSE IF Head(s) = 34 THEN [ok |-> TRUE, val |-> Str(acc), rest |-> Tail(s)]
    ELSE ParseText(Tail(s), Append(acc, Head(s)))

RECURSIVE ParseValue(_)
RECURSIVE ParseItems(_, _)
ParseItems(s, acc) ==
    LET r == ParseValue(s) IN
    IF ~r.ok \/ r.rest = <<>> THEN ParseFail
    ELSE IF Head(r.rest) = 44 THEN ParseItems(Tail(r.rest), Append(acc, r.val))
    ELSE IF Head(r.rest) = 93
         THEN [ok |-> TRUE, val |-> Arr(Append(acc, r.val)), rest |-> Tail(r.rest)]
    ELSE ParseFail

ParseValue(s0) ==
    LET s == TrimStart(s0) IN
    IF s = <<>> THEN ParseFail
    ELSE IF Head(s) \in DigitChars THEN ParseDigits(s, 0)
    ELSE IF Head(s) = 34 THEN ParseText(Tail(s), <<>>)
    ELSE IF Head(s) = 91
         THEN IF Len(s) >= 2 /\ s[2] = 93
              THEN [ok |-> TRUE, val |-> Arr(<<>>), rest |-> SubSeq(s, 3, Len(s))]
              ELSE ParseItems(Tail(s), <<>>)
    ELSE IF StartsWith(s, <<110, 117, 108, 108>>)
         THEN [ok |-> TRUE, val |-> Null, rest |-> SubSeq(s, 5, Len(s))]
    ELSE ParseFail

\* JSON.parse: the whole text must be one value
JsonParse(s) ==
    LET r == ParseValue(s) IN
    IF r.ok /\ TrimStart(r.rest) = <<>> THEN r ELSE ParseFail

parseMaybeJson(v, fallback) ==
    IF IsNullish(v) THEN fallback
    ELSE IF v.t = "arr" THEN v
    ELSE IF ~IsText(v) THEN fallback
    ELSE LET r == JsonParse(v.s) IN IF r.ok THEN r.val ELSE fallback

\* Number(text): blank text is 0, decimal digits are their value, anything else NaN
TextIsNumber(s) == LET u == Trim(s) IN \A i \in 1..Len(u) : u[i] \in DigitChars

parseMaybeNumber(v) ==
    IF IsNullish(v) \/ (IsText(v) /\ v.s = <<>>) THEN Null
    ELSE IF v.t = "num" THEN v
    ELSE IF IsText(v) /\ TextIsNumber(v.s) THEN ParseDigits(Trim(v.s), 0).val
    ELSE Null

----------------------------------------------------------------------------
(* Color derivation *)

PaletteLen == 20

COLOR_PALETTE ==
    << "#00C2FF", "#FF4D6D", "#FFD166", "#06D6A0", "#A78BFA",
       "#F97316", "#22C55E", "#E11D48", "#3B82F6", "#F59E0B",
       "#14B8A6", "#8B5CF6", "#84CC16", "#EC4899", "#0EA5E9",
       "#EF4444", "#10B981", "#FBBF24", "#6366F1", "#FB7185" >>

\* A 32-bit word is kept as two 16-bit halves, so that h*31 + c wraps as
\* (h << 5) - h + c followed by h |= 0 does.
HashStep(h, c) ==
    LET lo == h.lo * 31 + c
        hi == h.hi * 31 + (lo \div 65536)
    IN  [hi |-> hi % 65536, lo |-> lo % 65536]

RECURSIVE HashCode(_, _)
HashCode(s, h) == IF s = <<>> THEN h ELSE HashCode(Tail(s), HashStep(h, Head(s)))

\* Math.abs as 32-bit integer arithmetic has it: the absolute value of -2^31
\* is -2^31, and the remainder of a negative number is negative
AbsModInt32(h) ==
    LET u == ((h.hi % PaletteLen) * (65536 % PaletteLen) + h.lo) % PaletteLen
    IN  IF h = [hi |-> 32768, lo |-> 0] THEN -8
        ELSE IF h.hi >= 32768 THEN (2 * PaletteLen + 16 - u) % PaletteLen ELSE u

\* Math.abs(h) % 20 of the signed reading of the word
AbsMod(h) ==
    LET u == ((h.hi % PaletteLen) * (65536 % PaletteLen) + h.lo) % PaletteLen
    IN  IF h.hi >= 32768 THEN (2 * PaletteLen + 16 - u) % PaletteLen ELSE u

PaletteIndex(s) == AbsMod(HashCode(s, [hi |-> 0, lo |-> 0]))

\* String(code || "") hashed; an index outside the array reads undefined
generateColor(code) ==
    LET s == ToText(IF Falsy(code) THEN Str(<<>>) ELSE code)
    IN  IF PaletteIndex(s) \in 0..(PaletteLen - 1)
        THEN Hex(COLOR_PALETTE[PaletteIndex(s) + 1])
        ELSE Undef

----------------------------------------------------------------------------
(* Rows *)

RouteColumns ==
    { "id", "camp", "code", "full_code", "polygon_wgs84", "color",
      "vendor_business_number_1w", "vendor_business_number_2w",
      "delivery_location_name", "delivery_location_address",
      "delivery_location_lat", "delivery_location_lng" }

\* fields the handlers add to a row before answering
DerivedFields ==
    { "camp_name", "route_code",
      "vendor_name_1w", "vendor_1w_name", "vendor_name_2w", "vendor_2w_name" }

RowFields == RouteColumns \cup DerivedFields

\* the row object JSON.parse yields for a stored record (select=*)
RowOf(rec) == [f \in RowFields |-> IF f \in DOMAIN rec THEN rec[f] ELSE Undef]

\* the derived fields without the JSON.parse of a polygon stored as text
applyRouteDerivedFieldsNoParse(row) ==
    LET fullCode == safeTrim(IF Falsy(row.full_code) THEN row.code ELSE row.full_code)
    IN  [row EXCEPT
            !.color = IF fullCode # <<>> /\ Falsy(row.color)
                      THEN generateColor(Str(fullCode)) ELSE row.color,
            !.camp_name = IF Falsy(row.camp_name) /\ ~Falsy(row.camp)
                          THEN row.camp ELSE row.camp_name,
            !.route_code = IF Falsy(row.route_code) /\ ~Falsy(row.full_code)
                           THEN row.full_code ELSE row.route_code]

applyRouteDerivedFields(row) ==
    LET fullCode == safeTrim(IF Falsy(row.full_code) THEN row.code ELSE row.full_code)
    IN  [row EXCEPT
            !.color = IF fullCode # <<>> /\ Falsy(row.color)
                      THEN generateColor(Str(fullCode)) ELSE row.color,
            !.polygon_wgs84 = IF IsText(row.polygon_wgs84)
                              THEN parseMaybeJson(row.polygon_wgs84, Null)
                              ELSE row.polygon_wgs84,
            !.camp_name = IF Falsy(row.camp_name) /\ ~Falsy(row.camp)
                          THEN row.camp ELSE row.camp_name,
            !.route_code = IF Falsy(row.route_code) /\ ~Falsy(row.full_code)
                           THEN row.full_code ELSE row.route_code]

----------------------------------------------------------------------------
(* The store (PostgREST), as the worker uses it *)

\* order=full_code.asc; rows with equal full_code come in id order
RowBefore(r, o) ==
    \/ TextLess(ToText(r.full_code), ToText(o.full_code))
    \/ (ToText(r.full_code) = ToText(o.full_code) /\ r.id.n < o.id.n)

RECURSIVE SortRows(_)
SortRows(S) ==
    IF S = {} THEN <<>>
    ELSE LET m == CHOOSE r \in S : \A o \in S \ {r} : RowBefore(r, o)
         IN  <<m>> \o SortRows(S \ {m})

\* the texts "exact" and "prefix"
EXACT == <<101, 120, 97, 99, 116>>
PREFIX == <<112, 114, 101, 102, 105, 120>>

\* the store's LIKE: in the pattern % (and its alias *) stands for any text,
\* _ for any one character, every other character for itself
RECURSIVE Like(_, _)
Like(s, p) ==
    IF p = <<>> THEN s = <<>>
    ELSE IF Head(p) \in {37, 42} THEN Like(s, Tail(p)) \/ (s # <<>> /\ Like(Tail(s), p))
    ELSE IF s = <<>> THEN FALSE
    ELSE (Head(p) = 95 \/ Head(p) = Head(s)) /\ Like(Tail(s), Tail(p))

\* GET subsubroutes?camp=eq.<camp>&full_code=(eq|like).<code>&order=full_code.asc
\* (the filter of the prefix mode is like.<code>%)
SelectRoutes(table, camp, code, mode) ==
    SortRows({ r \in table :
        /\ r.camp = Str(camp)
        /\ \/ code = <<>>
           \/ (mode = EXACT /\ r.full_code = Str(code))
           \/ (mode # EXACT /\ IsText(r.full_code)
                             /\ Like(r.full_code.s, code \o <<37>>)) })

\* what a column holds after the value v is written to it
StoredValue(col, v, asText) ==
    IF col = "polygon_wgs84" /\ asText /\ v.t = "arr" THEN Str(JsonStringify(v)) ELSE v

\* the record after PATCH with the JSON object patch
PatchRecord(rec, patch, asText) ==
    [f \in RouteColumns |->
        IF f \in DOMAIN patch THEN StoredValue(f, patch[f], asText) ELSE rec[f]]

\* a PATCH that lost its filter: every record is patched
PatchRoutesUnfiltered(table, ids, patch, asText) ==
    { PatchRecord(r, patch, asText) : r \in table }

\* PATCH subsubroutes?<filter>: the table afterwards
PatchRoutes(table, ids, patch, asText) ==
    { IF r.id \in ids THEN PatchRecord(r, patch, asText) ELSE r : r \in table }

NextId(table) == Num(Cardinality(table) + 1)

\* POST subsubroutes: the inserted record, columns not given are null
InsertedRecord(table, patch, asText) ==
    [f \in RouteColumns |->
        IF f = "id" THEN NextId(table)
        ELSE IF f \in DOMAIN patch THEN StoredValue(f, patch[f], asText)
        ELSE Null]

\* the store rejects a body that names a column the table does not have
StoreAccepts(patch) == DOMAIN patch \subseteq RouteColumns

----------------------------------------------------------------------------
(* Vendor names *)

Range(f) == { f[i] : i \in DOMAIN f }

\* one upstream call, for the record of the calls a request made
Call(table, method, ok) == [table |-> table, method |-> method, ok |-> ok]

\* the spellings of one business number that the IN filter lists
BnVariants(raw) ==
    {raw, normalizeBusinessNumber(Str(raw)), digitsOnly(Str(raw))} \ {<<>>}

\* the keys under which a vendor row's name is entered into the map
VendorKeys(row) ==
    LET bn == safeTrim(row.business_number)
    IN  IF bn = <<>> THEN {} ELSE BnVariants(bn)

\* nameMap.get(key); when several rows give the key, the store's row order
\* decides which name the map keeps
MapGet(nameMap, key) ==
    IF \E e \in nameMap : e.key = key
    THEN (CHOOSE e \in nameMap : e.key = key).name
    ELSE Undef

\* threw: the vendors query failed and the error propagates to the caller
fetchVendorNameMap(table, businessNumbers, ok) ==
    LET entry(row, k) ==
            [key |-> k,
             name |-> IF safeTrim(row.name) = <<>> THEN Null ELSE Str(safeTrim(row.name))]
        query(bnSet) ==
            IF bnSet = {} THEN [threw |-> FALSE, calls |-> <<>>, map |-> {}]
            ELSE IF ~ok
            THEN [threw |-> TRUE, calls |-> <<Call("vendors", "GET", FALSE)>>, map |-> {}]
            ELSE [threw |-> FALSE, calls |-> <<Call("vendors", "GET", TRUE)>>,
                  map |-> UNION { { entry(row, k) : k \in VendorKeys(row) } :
                                  row \in { v \in table : IsText(v.business_number)
                                                          /\ v.business_number.s \in bnSet } }]
    IN  Only({ query(bnSet) :
               bnSet \in { UNION { BnVariants(safeTrim(Str(v))) :
                   v \in { b \in Range(businessNumbers) : safeTrim(Str(b)) # <<>> } } } })

\* row.vendor_business_number_1w ?? row.vendor_business_number, normalized
RowBn1(row) ==
    normalizeBusinessNumber(
        Coalesce(row.vendor_business_number_1w, Get(row, "vendor_business_number")))

RowBn2(row) == normalizeBusinessNumber(row.vendor_business_number_2w)

RECURSIVE CollectBns(_)
CollectBns(rows) ==
    IF rows = <<>> THEN <<>>
    ELSE LET row == Head(rows)
         IN  (IF RowBn1(row) # <<>> THEN <<RowBn1(row)>> ELSE <<>>)
             \o (IF RowBn2(row) # <<>> THEN <<RowBn2(row)>> ELSE <<>>)
             \o CollectBns(Tail(rows))

\* nameMap.get(bn) || nameMap.get(digitsOnly(bn))
ResolveName(nameMap, bn) ==
    IF bn = <<>> THEN Null
    ELSE Only({ IF Falsy(n) THEN MapGet(nameMap, digitsOnly(Str(bn))) ELSE n :
                n \in { MapGet(nameMap, bn) } })

WithVendorNames(row, nameMap) ==
    LET named(n1, n2) ==
            [row EXCEPT
                !.vendor_name_1w = IF Falsy(n1) THEN @ ELSE n1,
                !.vendor_1w_name = IF Falsy(n1) THEN @ ELSE n1,
                !.vendor_name_2w = IF Falsy(n2) THEN @ ELSE n2,
                !.vendor_2w_name = IF Falsy(n2) THEN @ ELSE n2]
    IN  Only({ named(n1, n2) : n1 \in { ResolveName(nameMap, RowBn1(row)) },
                               n2 \in { ResolveName(nameMap, RowBn2(row)) } })

\* an inner join: rows whose vendor is not found are left out
enrichRowsInnerJoin(rows, table, ok) ==
    LET joined(m) ==
            [threw |-> m.threw, calls |-> m.calls,
             rows |-> SelectSeq([i \in 1..Len(rows) |-> WithVendorNames(rows[i], m.map)],
                                LAMBDA r : ~Falsy(r.vendor_name_1w))]
    IN  IF rows = <<>> THEN [threw |-> FALSE, calls |-> <<>>, rows |-> rows]
        ELSE Only({ joined(m) : m \in { fetchVendorNameMap(table, CollectBns(rows), ok) } })

enrichRowsWithVendorNames(rows, table, ok) ==
    LET joined(m) ==
            [threw |-> m.threw, calls |-> m.calls,
             rows |-> [i \in 1..Len(rows) |-> WithVendorNames(rows[i], m.map)]]
    IN  IF rows = <<>> THEN [threw |-> FALSE, calls |-> <<>>, rows |-> rows]
        ELSE Only({ joined(m) : m \in { fetchVendorNameMap(table, CollectBns(rows), ok) } })

----------------------------------------------------------------------------
(* Camps *)

\* order=updated_at.desc,created_at.desc,id.desc
CampNewer(r, o) ==
    \/ r.updated_at > o.updated_at
    \/ (r.updated_at = o.updated_at /\ r.created_at > o.created_at)
    \/ (r.updated_at = o.updated_at /\ r.created_at = o.created_at /\ r.id.n > o.id.n)

\* the rows the camps query answers with: none when the call fails (caught)
CampRows(table, campName, ok) ==
    IF ~ok THEN {}
    ELSE { c \in table : campName = <<>> \/ c.camp = Str(campName) }

\* byMbCamp.get(key): the first row in the query's order with that key
loadCampIndex(table, campName, ok, key) ==
    LET first(hits) ==
            IF hits = {} THEN Undef
            ELSE CHOOSE r \in hits : \A o \in hits \ {r} : CampNewer(r, o)
    IN  Only({ first(hits) :
               hits \in { { c \in CampRows(table, campName, ok) :
                   normalizeCampKey(c.mb_camp) # <<>> /\ normalizeCampKey(c.mb_camp) = key } } })

\* the join with the camps table left out
HydrateRowNoJoin(row, table, ok) == row

HydrateRow(row, table, ok) ==
    LET deliveryName == safeTrim(row.delivery_location_name)
        cleared == [row EXCEPT !.delivery_location_address = Null]
        unset(v) == IsNullish(v) \/ (IsText(v) /\ v.s = <<>>)
        overwrite(matched) ==
            LET addr == safeTrim(matched.address)
                lat == parseMaybeNumber(matched.latitude)
                lng == parseMaybeNumber(matched.longitude)
            IN  [cleared EXCEPT
                    !.delivery_location_address = IF addr # <<>> THEN Str(addr) ELSE @,
                    !.delivery_location_lat = IF unset(@) /\ lat # Null THEN lat ELSE @,
                    !.delivery_location_lng = IF unset(@) /\ lng # Null THEN lng ELSE @]
    IN  IF deliveryName = <<>> THEN row
        ELSE Only({ IF matched = Undef THEN cleared ELSE overwrite(matched) :
                    matched \in { loadCampIndex(table, safeTrim(row.camp), ok,
                                                normalizeCampKey(Str(deliveryName))) } })

\* the byCamp cache left out: one camps query for every row that names a
\* delivery location
RECURSIVE CampCallsPerRow(_, _, _)
CampCallsPerRow(rows, seen, ok) ==
    IF rows = <<>> THEN <<>>
    ELSE IF safeTrim(Head(rows).delivery_location_name) = <<>>
         THEN CampCallsPerRow(Tail(rows), seen, ok)
         ELSE <<Call("camps", "GET", ok)>> \o CampCallsPerRow(Tail(rows), seen, ok)

\* the camps queries of one pass: one per distinct camp among the rows that
\* name a delivery location, in row order (the byCamp cache)
RECURSIVE CampCalls(_, _, _)
CampCalls(rows, seen, ok) ==
    IF rows = <<>> THEN <<>>
    ELSE LET row == Head(rows)
             c == safeTrim(row.camp)
         IN  IF safeTrim(row.delivery_location_name) = <<>> \/ c \in seen
             THEN CampCalls(Tail(rows), seen, ok)
             ELSE <<Call("camps", "GET", ok)>> \o CampCalls(Tail(rows), seen \cup {c}, ok)

hydrateRouteRowsWithCamps(rows, table, ok) ==
    [calls |-> CampCalls(rows, {}, ok),
     rows |-> [i \in 1..Len(rows) |-> HydrateRow(rows[i], table, ok)]]

----------------------------------------------------------------------------
(* /route handlers.  A handler's outcome is the response the fetch wrapper  *)
(* sends: an exception thrown below it becomes status 500 with an error.   *)

Response(op, req, status, rows, primary, calls) ==
    [op |-> op, req |-> req, status |-> status, error |-> status # 200,
     rows |-> rows, primary |-> primary, calls |-> calls]

NoResponse == Response("none", <<>>, 0, <<>>, <<>>, <<>>)

\* loadCampIndex without its try/catch: a failed camps query throws
RoutePipelineCampsThrow(raw, vtable, ctable, vendorOk, campOk) ==
    LET hydrated(v, h) ==
            [threw |-> h.calls # <<>> /\ ~campOk,
             rows |-> IF h.calls # <<>> /\ ~campOk THEN <<>> ELSE h.rows,
             calls |-> v.calls \o h.calls]
        enriched(v) ==
            IF v.threw THEN [threw |-> TRUE, rows |-> <<>>, calls |-> v.calls]
            ELSE Only({ hydrated(v, h) :
                        h \in { hydrateRouteRowsWithCamps(v.rows, ctable, campOk) } })
    IN  Only({ enriched(v) :
               v \in { enrichRowsWithVendorNames(
                         [i \in 1..Len(raw) |-> applyRouteDerivedFields(RowOf(raw[i]))],
                         vtable, vendorOk) } })

\* applyRouteDerivedFields, enrichRowsWithVendorNames, hydrateRouteRowsWithCamps
\* in this order; the camps pass is not reached when the vendor pass throws
RoutePipeline(raw, vtable, ctable, vendorOk, campOk) ==
    LET hydrated(v, h) == [threw |-> FALSE, rows |-> h.rows, calls |-> v.calls \o h.calls]
        enriched(v) ==
            IF v.threw THEN [threw |-> TRUE, rows |-> <<>>, calls |-> v.calls]
            ELSE Only({ hydrated(v, h) :
                        h \in { hydrateRouteRowsWithCamps(v.rows, ctable, campOk) } })
    IN  Only({ enriched(v) :
               v \in { enrichRowsWithVendorNames(
                         [i \in 1..Len(raw) |-> applyRouteDerivedFields(RowOf(raw[i]))],
                         vtable, vendorOk) } })

\* handleRouteGet without its check of camp
handleRouteGetAnyCamp(q, table, vtable, ctable, routeOk, vendorOk, campOk) ==
    LET first == <<Call("subsubroutes", "GET", routeOk)>>
        raw == SelectRoutes(table, safeTrim(q.camp), safeTrim(q.code), EXACT)
    IN  IF ~routeOk THEN Response("GET", q, 500, <<>>, <<>>, first)
        ELSE Response("GET", q, 200, <<>>, raw, first)

handleRouteGet(q, table, vtable, ctable, routeOk, vendorOk, campOk) ==
    LET camp == safeTrim(q.camp)
        code == safeTrim(q.code)
        mode == safeTrim(IF Falsy(q.mode) THEN Str(PREFIX) ELSE q.mode)
        first == <<Call("subsubroutes", "GET", routeOk)>>
        answer(raw, p) ==
            IF p.threw THEN Response("GET", q, 500, <<>>, raw, first \o p.calls)
            ELSE Response("GET", q, 200, p.rows, raw, first \o p.calls)
        enrich(raw) ==
            Only({ answer(raw, p) :
                   p \in { RoutePipeline(raw, vtable, ctable, vendorOk, campOk) } })
    IN  IF camp = <<>> THEN Response("GET", q, 400, <<>>, <<>>, <<>>)
        ELSE IF ~routeOk THEN Response("GET", q, 500, <<>>, <<>>, first)
        ELSE Only({ enrich(raw) : raw \in { SelectRoutes(table, camp, code, mode) } })

vendorKeys ==
    { "vendor_name", "vendor_business_number", "vendor_name_1w", "vendor_name_2w",
      "vendor_business_number_1w", "vendor_business_number_2w",
      "vendor_1w_name", "vendor_2w_name" }

buildRoutePatch(body) ==
    LET code == Str(safeTrim(Get(body, "code")))
        keys == {"camp", "code", "full_code"}
                \cup (DOMAIN body \cap (vendorKeys \cup
                        {"delivery_location_name", "delivery_location_lat",
                         "delivery_location_lng", "polygon_wgs84"}))
    IN  [k \in keys |->
            IF k = "camp" THEN Str(safeTrim(Get(body, "camp")))
            ELSE IF k \in {"code", "full_code"} THEN code
            ELSE IF k \in {"delivery_location_lat", "delivery_location_lng"}
                 THEN parseMaybeNumber(body[k])
            ELSE Coalesce(body[k], Null)]

\* Array.isArray(updated) ? updated[0] : updated, as a list of at most one row;
\* the representation lists the updated records in id order
FirstUpdated(table, ids) ==
    LET hit == { r \in table : r.id \in ids }
    IN  IF hit = {} THEN <<>>
        ELSE <<CHOOSE r \in hit : \A o \in hit : r.id.n <= o.id.n>>

\* the tail of handleRoutePost and handleRouteDelete: enrich the row and answer
AnswerRow(op, req, table, row, calls, vtable, ctable, vendorOk, campOk) ==
    LET answer(p) ==
            [routes |-> table,
             resp |-> IF p.threw THEN Response(op, req, 500, <<>>, row, calls \o p.calls)
                      ELSE Response(op, req, 200, p.rows, row, calls \o p.calls)]
    IN  Only({ answer(p) : p \in { RoutePipeline(row, vtable, ctable, vendorOk, campOk) } })

\* the lookup filtering on body.camp as sent, not on the trimmed camp
LookupExistingRawCamp(table, body) ==
    { r.id : r \in { x \in table :
                       /\ x.camp = Get(body, "camp")
                       /\ x.full_code = Str(safeTrim(Get(body, "code"))) } }

\* the ids the lookup camp=eq&full_code=eq&select=id&limit=1 may answer with
LookupExisting(table, body) ==
    { r.id : r \in { x \in table :
                       /\ x.camp = Str(safeTrim(Get(body, "camp")))
                       /\ x.full_code = Str(safeTrim(Get(body, "code"))) } }

HasNumericId(body) == Get(body, "id").t = "num"

\* handleRoutePost up to its first upstream call
PostRejected(body) == safeTrim(Get(body, "camp")) = <<>> \/ safeTrim(Get(body, "code")) = <<>>

\* handleRoutePost from its write on: PATCH by id, or POST when nothing was found.
\* existing: the id the lookup found, or Undef; calls: those made so far
handleRoutePostWrite(body, existing, calls, table, vtable, ctable, asText, writeOk, vendorOk, campOk) ==
    LET target == IF HasNumericId(body) THEN body.id ELSE existing
        insert == target = Undef
        call(done) == <<Call("subsubroutes", IF insert THEN "POST" ELSE "PATCH", done)>>
        answer(after) ==
            AnswerRow("POST", body, after,
                      FirstUpdated(after, {IF insert THEN NextId(table) ELSE target}),
                      calls \o call(TRUE), vtable, ctable, vendorOk, campOk)
        write(patch) ==
            IF ~(writeOk /\ StoreAccepts(patch))
            THEN [routes |-> table,
                  resp |-> Response("POST", body, 500, <<>>, <<>>, calls \o call(FALSE))]
            ELSE Only({ answer(after) :
                        after \in { IF insert
                                    THEN table \cup {InsertedRecord(table, patch, asText)}
                                    ELSE PatchRoutes(table, {target}, patch, asText) } })
    IN  Only({ write(patch) : patch \in { buildRoutePatch(body) } })

handleRouteDelete(body, table, vtable, ctable, asText, writeOk, vendorOk, campOk) ==
    LET camp == safeTrim(Get(body, "camp"))
        code == safeTrim(Get(body, "code"))
        ids == IF HasNumericId(body) THEN {body.id}
               ELSE { r.id : r \in { x \in table : x.camp = Str(camp) /\ x.full_code = Str(code) } }
        call == <<Call("subsubroutes", "PATCH", writeOk)>>
        answer(after) ==
            AnswerRow("DELETE", body, after, FirstUpdated(after, ids), call,
                      vtable, ctable, vendorOk, campOk)
    IN  IF ~HasNumericId(body) /\ (camp = <<>> \/ code = <<>>)
        THEN [routes |-> table, resp |-> Response("DELETE", body, 400, <<>>, <<>>, <<>>)]
        ELSE IF ~writeOk
        THEN [routes |-> table, resp |-> Response("DELETE", body, 500, <<>>, <<>>, call)]
        ELSE Only({ answer(after) :
                    after \in { PatchRoutes(table, ids, [polygon_wgs84 |-> Null], asText) } })

----------------------------------------------------------------------------
(* Bounds and the data the requests are drawn from *)

MaxRoutes == 2      \* rows the subsubroutes table may hold
MaxInFlight == 2    \* POST /route requests that may be suspended at once

Slots == 1..MaxInFlight

CampA == <<65>>
CampB == <<66>>
Code12 == <<49, 50>>
Code12A == <<49, 50, 65>>
BnDigits == <<49, 50, 51, 52, 53, 54, 55, 56, 57, 48>>
BnHyphen == <<49, 50, 51, 45, 52, 53, 45, 54, 55, 56, 57, 48>>
HubName == <<32, 72, 117, 98>>

Polygon1 == Arr(<<Arr(<<Num(1), Num(2)>>), Arr(<<Num(3), Num(4)>>)>>)
Polygon2 == Arr(<<Arr(<<Num(5), Num(6)>>)>>)

VendorsTable ==
    { [id |-> Num(1), business_number |-> Str(BnHyphen), name |-> Str(<<86, 32>>)] }

CampsTable ==
    { [id |-> Num(1), camp |-> Str(CampA), mb_camp |-> Str(<<104, 117, 98, 32>>),
       address |-> Str(<<78>>), latitude |-> Str(<<51, 55>>), longitude |-> Null,
       created_at |-> 1, updated_at |-> 2],
      [id |-> Num(2), camp |-> Str(CampA), mb_camp |-> Str(<<72, 85, 66>>),
       address |-> Str(<<77>>), latitude |-> Null, longitude |-> Num(9),
       created_at |-> 1, updated_at |-> 1] }

\* a row written by an earlier deployment: a stored color, a stored (stale)
\* address, and a polygon that is broken JSON text when the column is text
LegacyRow(asText) ==
    [id |-> Num(1), camp |-> Str(CampA), code |-> Str(Code12), full_code |-> Str(Code12),
     polygon_wgs84 |-> IF asText THEN Str(<<91, 91, 49, 44>>) ELSE Polygon2,
     color |-> Hex("#123456"),
     vendor_business_number_1w |-> Str(BnDigits), vendor_business_number_2w |-> Null,
     delivery_location_name |-> Str(<<72, 117, 98>>),
     delivery_location_address |-> Str(<<79>>),
     delivery_location_lat |-> Null, delivery_location_lng |-> Null]

GetRequests ==
    [camp : {Undef, Str(<<32>>), Str(<<32, 65>>), Str(CampB)},
     code : {Undef, Str(Code12), Str(<<49, 95>>)},
     mode : {Undef, Str(EXACT), Str(PREFIX)}]

OptionalParts ==
    { <<>>,
      [polygon_wgs84 |-> Polygon1],
      [vendor_business_number_1w |-> Str(BnDigits), delivery_location_name |-> Str(HubName),
       delivery_location_address |-> Str(<<88>>), delivery_location_lat |-> Str(<<51, 56>>)],
      [polygon_wgs84 |-> Null, vendor_business_number_1w |-> Null,
       delivery_location_name |-> Null, delivery_location_lat |-> Str(<<120>>)] }

KeyParts ==
    { [camp |-> Str(<<32, 65>>), code |-> Str(Code12)],
      [camp |-> Str(<<32, 65>>), code |-> Str(Code12A)],
      [camp |-> Str(CampB), code |-> Str(Code12)] }

IdParts == { <<>> } \cup { [id |-> Num(i)] : i \in 1..MaxRoutes }

PostBodies ==
    { i @@ k @@ o : i \in IdParts, k \in KeyParts, o \in OptionalParts }
    \cup { [code |-> Str(Code12)] }

DeleteBodies ==
    { [id |-> Num(i)] : i \in 1..MaxRoutes } \cup KeyParts \cup { [camp |-> Str(CampB)] }

\* the bodies of the requests that race: POST /route without id
RaceBodies == { b \in PostBodies : ~HasNumericId(b) /\ "delivery_location_name" \notin DOMAIN b }

\* Which upstream call of a request fails, if any.  A request's calls are made
\* one after the other and the first failure that throws ends the request, so
\* one failing table per request gives every outcome.
Faults == {"none", "lookup", "write", "vendors", "camps"}

Idle == [busy |-> FALSE]

----------------------------------------------------------------------------
(* The state machine: requests are handled one after the other; each       *)
(* leaves its response in resp until the client has taken it.              *)

Init ==
    /\ polygonAsText \in BOOLEAN
    /\ routes \in { {}, {LegacyRow(polygonAsText)} }
    /\ vendors = VendorsTable
    /\ camps = CampsTable
    /\ pending = [s \in Slots |-> Idle]
    /\ resp = NoResponse

\* GET /route
RouteGet ==
    /\ resp = NoResponse
    /\ \E q \in GetRequests, fault \in Faults \ {"write"} :
        resp' = handleRouteGet(q, routes, vendors, camps,
                               fault # "lookup", fault # "vendors", fault # "camps")
    /\ UNCHANGED <<routes, vendors, camps, polygonAsText, pending>>

\* the lookup of a POST /route without id: Undef when no record has the key
LookupAnswers(table, body) ==
    IF LookupExisting(table, body) = {} THEN {Undef} ELSE LookupExisting(table, body)

WouldInsert(body, existing) == ~HasNumericId(body) /\ existing = Undef

\* handleRoutePost from its first line to its lookup: a response when the
\* request ends there, else none
handleRoutePostLookup(body, lookupOk) ==
    IF PostRejected(body) THEN Response("POST", body, 400, <<>>, <<>>, <<>>)
    ELSE IF ~HasNumericId(body) /\ ~lookupOk
         THEN Response("POST", body, 500, <<>>, <<>>, <<Call("subsubroutes", "GET", FALSE)>>)
    ELSE NoResponse

\* handleRoutePost with a body of bodies, from its first line to its response
\* with no other request in between
PostOf(bodies) ==
    /\ resp = NoResponse
    /\ \E body \in bodies, fault \in Faults :
        \E existing \in LookupAnswers(routes, body) :
            /\ WouldInsert(body, existing) => Cardinality(routes) < MaxRoutes
            /\ IF handleRoutePostLookup(body, fault # "lookup") # NoResponse
               THEN /\ resp' = handleRoutePostLookup(body, fault # "lookup")
                    /\ routes' = routes
               ELSE \E o \in { handleRoutePostWrite(body, existing,
                                    IF HasNumericId(body) THEN <<>>
                                    ELSE <<Call("subsubroutes", "GET", TRUE)>>,
                                    routes, vendors, camps, polygonAsText,
                                    fault # "write", fault # "vendors", fault # "camps") } :
                        resp' = o.resp /\ routes' = o.routes
    /\ UNCHANGED <<vendors, camps, polygonAsText, pending>>

\* POST /route
RoutePost == PostOf(PostBodies)

\* POST /route with a body that has no numeric id
RoutePostNoId == PostOf({ b \in PostBodies : ~HasNumericId(b) })

\* DELETE /route
RouteDelete ==
    /\ resp = NoResponse
    /\ \E body \in DeleteBodies, fault \in Faults \ {"lookup"} :
        \E o \in { handleRouteDelete(body, routes, vendors, camps, polygonAsText,
                                      fault # "write", fault # "vendors", fault # "camps") } :
            resp' = o.resp /\ routes' = o.routes
    /\ UNCHANGED <<vendors, camps, polygonAsText, pending>>

\* the response is sent and the worker is ready for the next request
Respond ==
    /\ resp # NoResponse
    /\ resp' = NoResponse
    /\ UNCHANGED <<routes, vendors, camps, polygonAsText, pending>>

Next == RouteGet \/ RoutePost \/ RouteDelete \/ Respond

Spec == Init /\ [][Next]_vars

\* clients that never send an id
NextNoId == RouteGet \/ RoutePostNoId \/ Respond

SpecNoId == Init /\ [][NextNoId]_vars

----------------------------------------------------------------------------
(* Concurrent POST /route: a request suspends at its lookup (await) and     *)
(* resumes at its write; other requests run in between.                    *)

PostLookup(s) ==
    /\ resp = NoResponse
    /\ pending[s] = Idle
    /\ \E body \in RaceBodies, fault \in {"none", "lookup"} :
        \E existing \in LookupAnswers(routes, body) :
            LET early == handleRoutePostLookup(body, fault # "lookup")
            IN  IF early # NoResponse
                THEN resp' = early /\ UNCHANGED pending
                ELSE /\ pending' = [pending EXCEPT
                            ![s] = [busy |-> TRUE, body |-> body, existing |-> existing]]
                     /\ UNCHANGED resp
    /\ UNCHANGED <<routes, vendors, camps, polygonAsText>>

PostWrite(s) ==
    /\ resp = NoResponse
    /\ pending[s] # Idle
    /\ \E fault \in Faults \ {"lookup"} :
        /\ WouldInsert(pending[s].body, pending[s].existing)
                => Cardinality(routes) < MaxRoutes
        /\ \E o \in { handleRoutePostWrite(pending[s].body, pending[s].existing,
                            <<Call("subsubroutes", "GET", TRUE)>>,
                            routes, vendors, camps, polygonAsText,
                            fault # "write", fault # "vendors", fault # "camps") } :
                resp' = o.resp /\ routes' = o.routes
    /\ pending' = [pending EXCEPT ![s] = Idle]
    /\ UNCHANGED <<vendors, camps, polygonAsText>>

NextRace == (\E s \in Slots : PostLookup(s) \/ PostWrite(s)) \/ Respond

SpecRace == Init /\ [][NextRace]_vars

----------------------------------------------------------------------------
(* Properties of GET /route *)

\* some call of the request to the table failed
Failed(r, table) == \E i \in DOMAIN r.calls : r.calls[i].table = table /\ ~r.calls[i].ok

\* rows answers, one for one and in order, the records of primary
SameRecords(rows, primary) ==
    /\ Len(rows) = Len(primary)
    /\ \A i \in DOMAIN rows : rows[i].id = primary[i].id

\* C1: a GET /route whose vendors query failed is still answered 200, with one
\* row for every record the route query returned and no vendor name set
C1_VendorFailureStill200 ==
    (resp.op = "GET" /\ Failed(resp, "vendors")) =>
        /\ resp.status = 200
        /\ SameRecords(resp.rows, resp.primary)
        /\ \A i \in DOMAIN resp.rows : resp.rows[i].vendor_name_1w = Undef

\* C2: a GET /route whose camps query failed is answered 200 with one row for
\* every record the route query returned, and no row gets an address or a
\* coordinate from the camps table: the coordinates are the stored ones and
\* the address is the stored one or null
C2_CampFailureStill200 ==
    (resp.op = "GET" /\ Failed(resp, "camps")) =>
        /\ resp.status = 200
        /\ SameRecords(resp.rows, resp.primary)
        /\ \A i \in DOMAIN resp.rows :
              /\ resp.rows[i].delivery_location_address
                    \in {Null, resp.primary[i].delivery_location_address}
              /\ resp.rows[i].delivery_location_lat = resp.primary[i].delivery_location_lat
              /\ resp.rows[i].delivery_location_lng = resp.primary[i].delivery_location_lng

\* a GET answered 200 although the camps query for a row that names the
\* delivery location "Hub" (which the camps table knows) failed
C2_Witness ==
    /\ resp.op = "GET" /\ Failed(resp, "camps") /\ resp.status = 200
    /\ \E i \in DOMAIN resp.rows :
          /\ normalizeCampKey(resp.primary[i].delivery_location_name) = <<104, 117, 98>>
          /\ resp.rows[i].delivery_location_address = Null

\* C3: the rows of a GET /route answered 200 are the records the route query
\* returned, one row per record and in the same order
C3_RowsPreserved ==
    (resp.op = "GET" /\ resp.status = 200) => SameRecords(resp.rows, resp.primary)

\* two rows answered, the first with a stored polygon that did not parse and
\* the second with no vendor and no delivery location
C3_Witness ==
    /\ resp.op = "GET" /\ resp.status = 200 /\ Len(resp.rows) = 2
    /\ IsText(resp.primary[1].polygon_wgs84) /\ resp.rows[1].polygon_wgs84 = Null
    /\ resp.rows[2].vendor_name_1w = Undef
    /\ Falsy(resp.rows[2].delivery_location_name)

----------------------------------------------------------------------------
(* Properties of the route table's key *)

KeyOf(r) == <<r.camp, r.full_code>>

\* the (camp, full_code) a request body addresses
BodyKey(body) == <<Str(safeTrim(Get(body, "camp"))), Str(safeTrim(Get(body, "code")))>>

WithKey(table, key) == { r \in table : KeyOf(r) = key }

\* the request's PATCH or POST of the route table was carried out
Wrote(r) ==
    \E i \in DOMAIN r.calls :
        r.calls[i].table = "subsubroutes" /\ r.calls[i].method # "GET" /\ r.calls[i].ok

\* C4: when only POSTs without id are sent, one after the other, a POST that
\* wrote leaves exactly one record with its (camp, full_code): the record that
\* had the key before, with the same id and no record added, or else one new
\* record
C4_UpsertInPlace ==
    [][ (resp = NoResponse /\ resp'.op = "POST" /\ Wrote(resp')) =>
            /\ Cardinality(WithKey(routes', BodyKey(resp'.req))) = 1
            /\ IF WithKey(routes, BodyKey(resp'.req)) # {}
               THEN /\ { r.id : r \in WithKey(routes', BodyKey(resp'.req)) }
                          = { r.id : r \in WithKey(routes, BodyKey(resp'.req)) }
                    /\ { r.id : r \in routes' } = { r.id : r \in routes }
               ELSE Cardinality(routes') = Cardinality(routes) + 1 ]_vars

\* a POST without id has updated, by PATCH, the camp-B record that an earlier
\* POST inserted, and the key still has one record
C4_Witness ==
    /\ resp.op = "POST" /\ ~HasNumericId(resp.req) /\ resp.status = 200
    /\ \E i \in DOMAIN resp.calls : resp.calls[i] = Call("subsubroutes", "PATCH", TRUE)
    /\ BodyKey(resp.req) = <<Str(CampB), Str(Code12)>>
    /\ Cardinality(WithKey(routes, BodyKey(resp.req))) = 1

\* C5: no two route records share the same (camp, full_code), whatever POST
\* /route (with or without id) and DELETE /route requests were handled
C5_KeyUnique ==
    \A r, o \in routes : KeyOf(r) = KeyOf(o) => r.id = o.id

\* C6: once the concurrent POSTs without id have all finished, every
\* (camp, full_code) they addressed has exactly one record
C6_RaceLeavesOneRecord ==
    (\A s \in Slots : pending[s] = Idle) =>
        \A r \in routes : Cardinality(WithKey(routes, KeyOf(r))) = 1

----------------------------------------------------------------------------
(* Properties of POST /route and DELETE /route *)

\* the columns of a route record other than its id and its key
PatchFields == RouteColumns \ {"id", "camp", "code", "full_code"}

\* what a column holds when it has taken the value v of a body: a coordinate
\* is held as a number, a polygon as the column's type holds it
Taken(f, v) ==
    IF f \in {"delivery_location_lat", "delivery_location_lng"} THEN parseMaybeNumber(v)
    ELSE StoredValue(f, Coalesce(v, Null), polygonAsText)

\* C7: a POST /route answered 200 leaves every field the body omits as it
\* was, and gives every field the body names the body's value (null for null)
C7_PartialPatch ==
    [][ (resp = NoResponse /\ resp'.op = "POST" /\ resp'.status = 200
            /\ resp'.primary # <<>>) =>
            \A new \in { r \in routes' : r.id = resp'.primary[1].id } :
                \A f \in PatchFields :
                    IF f \in DOMAIN resp'.req
                    THEN new[f] = Taken(f, resp'.req[f])
                    ELSE \A old \in { r \in routes : r.id = new.id } : new[f] = old[f] ]_vars

\* the records a DELETE /route body addresses
Addressed(table, body) ==
    IF HasNumericId(body) THEN { r \in table : r.id = body.id }
    ELSE WithKey(table, BodyKey(body))

\* C8: a DELETE /route that wrote and addressed an existing record changes
\* the table in that record's polygon alone, which becomes null; no record is
\* added or removed, and GET /route for the record's camp still returns it
C8_SoftDelete ==
    [][ (resp = NoResponse /\ resp'.op = "DELETE" /\ Wrote(resp')
            /\ Addressed(routes, resp'.req) # {}) =>
            \E rec \in Addressed(routes, resp'.req) :
                /\ routes' = (routes \ {rec}) \cup {[rec EXCEPT !.polygon_wgs84 = Null]}
                /\ Cardinality(routes') = Cardinality(routes)
                /\ \E row \in Range(handleRouteGet(
                                    [camp |-> rec.camp, code |-> Undef, mode |-> Undef],
                                    routes', vendors, camps, TRUE, TRUE, TRUE).rows) :
                        row.id = rec.id ]_vars

\* GET /route?camp=&code=&mode=exact for the key of body, on the table as it is
ExactGet(body, vendorOk, campOk) ==
    handleRouteGet([camp |-> body.camp, code |-> body.code, mode |-> Str(EXACT)],
                   routes, vendors, camps, TRUE, vendorOk, campOk)

\* C9: after a POST /route without id that wrote a body with polygon_wgs84, a
\* GET for the body's camp and code with mode=exact is answered 200 when its
\* upstream calls succeed, and whenever it is answered 200 one of its rows
\* has the posted polygon, whether the column holds JSON or the JSON text
C9_PolygonRoundTrip ==
    (resp.op = "POST" /\ Wrote(resp) /\ ~HasNumericId(resp.req)
        /\ "polygon_wgs84" \in DOMAIN resp.req) =>
        /\ ExactGet(resp.req, TRUE, TRUE).status = 200
        /\ \A vendorOk, campOk \in BOOLEAN :
              ExactGet(resp.req, vendorOk, campOk).status = 200 =>
                \E row \in Range(ExactGet(resp.req, vendorOk, campOk).rows) :
                    row.polygon_wgs84 = resp.req.polygon_wgs84

\* a posted polygon of two points is held as JSON text by the store and the
\* GET gives it back parsed
C9_Witness ==
    /\ resp.op = "POST" /\ Wrote(resp) /\ ~HasNumericId(resp.req)
    /\ "polygon_wgs84" \in DOMAIN resp.req /\ resp.req.polygon_wgs84 = Polygon1
    /\ polygonAsText
    /\ \E r \in routes : r.polygon_wgs84 = Str(JsonStringify(Polygon1))
    /\ \E row \in Range(ExactGet(resp.req, TRUE, TRUE).rows) : row.polygon_wgs84 = Polygon1

\* C10: the color of every row of a GET, POST or DELETE /route response is
\* the color its record gets whatever color the store holds for it: the same
\* as with no stored color
C10_ColorByIdentity ==
    \A i \in DOMAIN resp.rows :
        resp.rows[i].color
            = applyRouteDerivedFields(RowOf([resp.primary[i] EXCEPT !.color = Null])).color

----------------------------------------------------------------------------
(* Validation and filtering of GET /route *)

\* C14: a GET /route whose camp parameter is absent or blank after trimming is
\* answered 400 with an error field, whatever code and mode are, and makes no
\* call to the store
C14_CampRequired ==
    (resp.op = "GET" /\ safeTrim(resp.req.camp) = <<>>) =>
        (resp.status = 400 /\ resp.error /\ resp.calls = <<>>)

\* a blank camp with code and mode given has been answered
C14_Witness ==
    /\ resp.op = "GET" /\ resp.status = 400
    /\ resp.req.camp = Str(<<32>>)
    /\ resp.req.code = Str(Code12) /\ resp.req.mode = Str(EXACT)

\* the records of the camp of q whose full_code is the code of q (mode exact)
\* or starts with the code of q, character for character (any other mode)
Wanted(table, q) ==
    { r \in table :
        /\ r.camp = Str(safeTrim(q.camp))
        /\ \/ safeTrim(q.code) = <<>>
           \/ IF q.mode = Str(EXACT) THEN r.full_code = Str(safeTrim(q.code))
              ELSE IsText(r.full_code) /\ StartsWith(r.full_code.s, safeTrim(q.code)) }

\* C15: a GET /route answered 200 returns exactly the records of the camp
\* whose full_code is the code (mode exact) or starts with the code as a
\* literal text (mode prefix or omitted), all records of the camp when no
\* code is given, each once and in ascending order of full_code
C15_FilterAndOrder ==
    (resp.op = "GET" /\ resp.status = 200) =>
        /\ { resp.rows[i].id : i \in DOMAIN resp.rows }
                = { r.id : r \in Wanted(routes, resp.req) }
        /\ Len(resp.rows) = Cardinality(Wanted(routes, resp.req))
        /\ \A i, j \in DOMAIN resp.rows :
                i < j => ~TextLess(ToText(resp.rows[j].full_code),
                                   ToText(resp.rows[i].full_code))

----------------------------------------------------------------------------
(* The HTTP layer: JSON responses, request bodies and the CORS wrapper *)

\* json(obj, status) of a handler: message is obj.error ("" when obj has no
\* error field), rows the rows or the row of obj
json(op, req, status, message, rows, calls) ==
    [op |-> op, req |-> req, status |-> status, error |-> message # "",
     message |-> message, rows |-> rows, primary |-> <<>>, calls |-> calls]

\* a request body is [obj |-> o], the JSON text of the object o, or
\* [text |-> s], any other text.  readJson: no text is the empty object, text
\* that does not parse throws; a parsed array, number or text has none of the
\* fields the handlers read, and reading a field of null throws a TypeError
readJson(b) ==
    IF "obj" \in DOMAIN b THEN [threw |-> "", body |-> b.obj]
    ELSE IF b.text = <<>> THEN [threw |-> "", body |-> <<>>]
    ELSE IF ~JsonParse(b.text).ok THEN [threw |-> "Invalid JSON body", body |-> <<>>]
    ELSE IF JsonParse(b.text).val = Null
         THEN [threw |-> "Cannot read properties of null", body |-> <<>>]
    ELSE [threw |-> "", body |-> <<>>]

\* cors(res): the response with the header Access-Control-Allow-Origin: *
cors(r) == [cors |-> TRUE] @@ r

\* s.includes(t)
Includes(s, t) == \E i \in 0..(Len(s) - Len(t)) : SubSeq(s, i + 1, i + Len(t)) = t

\* the rows of S as order=created_at.desc,id.desc returns them: the store
\* numbers the rows in the order of their creation
RECURSIVE NewestFirst(_)
NewestFirst(S) ==
    IF S = {} THEN <<>>
    ELSE LET m == CHOOSE r \in S : \A o \in S : o.id.n <= r.id.n
         IN  <<m>> \o NewestFirst(S \ {m})

\* merged.has(key) / merged.set(key, row) over the rows of the queries in
\* turn: the first row of every id is kept (every stored row has an id)
RECURSIVE MergeRows(_, _)
MergeRows(rows, seen) ==
    IF rows = <<>> THEN <<>>
    ELSE IF Head(rows).id \in seen THEN MergeRows(Tail(rows), seen)
    ELSE <<Head(rows)>> \o MergeRows(Tail(rows), seen \cup {Head(rows).id})

\* slice(0, limit) left out
sliceNothing(rows, n) == rows

\* rows.slice(0, n), and what limit=n returns of the rows a query selects
slice(rows, n) == SubSeq(rows, 1, IF n < Len(rows) THEN n ELSE Len(rows))

\* the limit of a search: Number(searchParams.get("limit")) floored and
\* capped at 200 when it is a positive number, else 50 (absent is Number(null),
\* blank is 0, text that is not a number is NaN)
limit(q) ==
    LET v == Get(q, "limit")
        limitRaw == IF IsText(v) /\ TextIsNumber(v.s) THEN ParseDigits(Trim(v.s), 0).val.n
                    ELSE 0
    IN  IF limitRaw > 0 THEN (IF limitRaw < 200 THEN limitRaw ELSE 200) ELSE 50

----------------------------------------------------------------------------
(* /vendors *)

buildVendorCodeFromBusinessNumber(v) ==
    IF digitsOnly(v) = <<>> THEN Null ELSE Str(<<98, 110, 95>> \o digitsOnly(v))

scoreVendorSearch(row, qLower) ==
    LET name == ToLowerCase(safeTrim(Get(row, "name")))
        bn == ToLowerCase(safeTrim(Get(row, "business_number")))
    IN  IF qLower = <<>> THEN 0
        ELSE IF name = qLower THEN 120
        ELSE IF bn = qLower THEN 115
        ELSE IF StartsWith(name, qLower) THEN 100
        ELSE IF StartsWith(bn, qLower) THEN 95
        ELSE IF Includes(name, qLower) THEN 80
        ELSE IF Includes(bn, qLower) THEN 75
        ELSE 0

\* GET /vendors.  ok: the store answers the queries of this request.
handleVendorsGet(q, table, ok) ==
    LET text == safeTrim(Get(q, "q"))
        qLower == ToLowerCase(text)
        call == Call("vendors", "GET", ok)
        has(row, f) == IsText(Get(row, f))
        base == IF limit(q) * 2 < 200 THEN limit(q) * 2 ELSE 200
        eq(f) == slice(NewestFirst({ v \in table : has(v, f) /\ v[f].s = text }), base)
        ilike(f) == slice(NewestFirst({ v \in table :
                            has(v, f) /\ Like(ToLowerCase(v[f].s),
                                              <<42>> \o qLower \o <<42>>) }), base)
        ranked(merged) ==
            LET at(n) == SelectSeq(merged, LAMBDA r : scoreVendorSearch(r, qLower) = n)
            IN  at(120) \o at(115) \o at(100) \o at(95) \o at(80) \o at(75) \o at(0)
        found(merged) == json("GET", q, 200, "", slice(ranked(merged), limit(q)),
                              <<call, call, call, call>>)
    IN  IF text = <<>>
        THEN IF ok THEN json("GET", q, 200, "", slice(NewestFirst(table), limit(q)), <<call>>)
             ELSE json("GET", q, 500, "upstream error", <<>>, <<call>>)
        ELSE IF ~ok THEN json("GET", q, 200, "", <<>>, <<call, call, call, call>>)
        ELSE Only({ found(merged) :
                    merged \in { MergeRows(eq("name") \o eq("business_number")
                                   \o ilike("name") \o ilike("business_number"), {}) } })

\* POST /vendors with the parsed body: the responses and tables it may end
\* with (limit=1 without an order lets the store pick the row it answers with)
handleVendorCreate(body, table, lookupOk, writeOk) ==
    LET name == safeTrim(Coalesce(Get(body, "name"), Get(body, "vendor_name")))
        rawBusinessNumber == safeTrim(Coalesce(Get(body, "business_number"),
                                               Get(body, "vendor_business_number")))
        businessNumber == normalizeBusinessNumber(Str(rawBusinessNumber))
        vendorCodeInput == safeTrim(Get(body, "vendor_code"))
        vendorCode == IF buildVendorCodeFromBusinessNumber(Str(businessNumber)) # Null
                      THEN buildVendorCodeFromBusinessNumber(Str(businessNumber))
                      ELSE IF vendorCodeInput # <<>> THEN Str(vendorCodeInput) ELSE Null
        tryFindByBusinessNumber(bn) == { v \in table : v.business_number = Str(bn) }
        again == /\ tryFindByBusinessNumber(businessNumber) = {}
                 /\ rawBusinessNumber # <<>> /\ rawBusinessNumber # businessNumber
        existing == IF again THEN tryFindByBusinessNumber(rawBusinessNumber)
                    ELSE tryFindByBusinessNumber(businessNumber)
        lookups(done) == IF again THEN <<Call("vendors", "GET", TRUE), Call("vendors", "GET", done)>>
                         ELSE <<Call("vendors", "GET", done)>>
        patch == [name |-> Str(name), business_number |-> Str(businessNumber)]
                 @@ IF vendorCode # Null \/ "vendor_code" \in DOMAIN body
                    THEN [vendor_code |-> vendorCode] ELSE <<>>
        failed(calls) ==
            [vendors |-> table, resp |-> json("POST", body, 500, "upstream error", <<>>, calls)]
        done(method, row, after) ==
            [vendors |-> after,
             resp |-> json("POST", body, 200, "", <<row>>,
                           lookups(TRUE) \o <<Call("vendors", method, TRUE)>>)]
        update(e) ==
            IF ~writeOk THEN failed(lookups(TRUE) \o <<Call("vendors", "PATCH", FALSE)>>)
            ELSE done("PATCH", patch @@ e, (table \ {e}) \cup {patch @@ e})
        insert ==
            IF ~writeOk THEN failed(lookups(TRUE) \o <<Call("vendors", "POST", FALSE)>>)
            ELSE done("POST", [id |-> NextId(table)] @@ patch,
                      table \cup {[id |-> NextId(table)] @@ patch})
    IN  IF name = <<>>
        THEN { [vendors |-> table, resp |-> json("POST", body, 400, "name is required", <<>>, <<>>)] }
        ELSE IF digitsOnly(Str(businessNumber)) = <<>>
        THEN { [vendors |-> table,
                resp |-> json("POST", body, 400, "business_number is required", <<>>, <<>>)] }
        ELSE IF ~lookupOk THEN { failed(lookups(FALSE)) }
        ELSE IF existing # {} THEN { update(e) : e \in existing }
        ELSE { insert }

----------------------------------------------------------------------------
(* /camps *)

CampColumns ==
    {"id", "camp", "mb_camp", "code", "address", "latitude", "longitude",
     "created_at", "updated_at"}

normalizeCampRow(row) ==
    [f \in DOMAIN row |->
        IF f \in {"camp", "code", "mb_camp", "address"} THEN Str(safeTrim(row[f]))
        ELSE IF f \in {"latitude", "longitude"} THEN parseMaybeNumber(row[f])
        ELSE row[f]]

scoreCampSearchMatch(row, qLower) ==
    LET mb == ToLowerCase(safeTrim(Get(row, "mb_camp")))
        camp == ToLowerCase(safeTrim(Get(row, "camp")))
    IN  IF qLower = <<>> THEN 0
        ELSE IF mb = qLower THEN 120
        ELSE IF camp = qLower THEN 115
        ELSE IF StartsWith(mb, qLower) THEN 100
        ELSE IF StartsWith(camp, qLower) THEN 95
        ELSE IF Includes(mb, qLower) THEN 80
        ELSE IF Includes(camp, qLower) THEN 75
        ELSE 0

\* the rows of S as order=updated_at.desc,created_at.desc,id.desc returns them
RECURSIVE CampsInOrder(_)
CampsInOrder(S) ==
    IF S = {} THEN <<>>
    ELSE LET m == CHOOSE r \in S : \A o \in S \ {r} : CampNewer(r, o)
         IN  <<normalizeCampRow(m)>> \o CampsInOrder(S \ {m})

\* GET /camps.  ok: the store answers the queries of this request.
handleCampsGet(q, table, ok) ==
    LET text == safeTrim(Get(q, "q"))
        qLower == ToLowerCase(text)
        camp == safeTrim(Get(q, "camp"))
        mbCamp == safeTrim(IF ~Falsy(Get(q, "mb_camp")) THEN Get(q, "mb_camp")
                           ELSE IF ~Falsy(Get(q, "orbm_camp")) THEN Get(q, "orbm_camp")
                           ELSE Get(q, "ormb_camp"))
        call == Call("camps", "GET", ok)
        \* the filter of one query: field f is matched by eq or ilike, the
        \* other field by the camp or mb_camp parameter when it is given
        given(c, f) == IF f = "camp" THEN camp = <<>> \/ c.camp = Str(camp)
                       ELSE mbCamp = <<>> \/ c.mb_camp = Str(mbCamp)
        other(f) == IF f = "camp" THEN "mb_camp" ELSE "camp"
        base == IF limit(q) * 2 < 200 THEN limit(q) * 2 ELSE 200
        wide == IF limit(q) * 8 > 200 THEN limit(q) * 8 ELSE 200
        eq(f) == slice(CampsInOrder({ c \in table :
                        IsText(c[f]) /\ c[f].s = text /\ given(c, other(f)) }), base)
        ilike(f) == slice(CampsInOrder({ c \in table :
                        /\ IsText(c[f]) /\ given(c, other(f))
                        /\ Like(ToLowerCase(c[f].s), <<42>> \o qLower \o <<42>>) }), base)
        broad == SelectSeq(
                    slice(CampsInOrder({ c \in table : given(c, "camp") /\ given(c, "mb_camp") }),
                          wide),
                    LAMBDA r : Includes(ToLowerCase(r.mb_camp.s \o <<10>> \o r.camp.s), qLower))
        ranked(merged) ==
            LET at(n) == SelectSeq(merged, LAMBDA r : scoreCampSearchMatch(r, qLower) = n)
            IN  at(120) \o at(115) \o at(100) \o at(95) \o at(80) \o at(75) \o at(0)
        found(merged) ==
            IF merged # <<>>
            THEN json("GET", q, 200, "", slice(ranked(merged), limit(q)),
                      <<call, call, call, call>>)
            ELSE json("GET", q, 200, "", slice(ranked(broad), limit(q)),
                      <<call, call, call, call, call>>)
    IN  IF text = <<>>
        THEN IF ok THEN json("GET", q, 200, "",
                             slice(CampsInOrder({ c \in table :
                                        given(c, "camp") /\ given(c, "mb_camp") }), limit(q)),
                             <<call>>)
             ELSE json("GET", q, 500, "upstream error", <<>>, <<call>>)
        ELSE IF ~ok THEN json("GET", q, 200, "", <<>>, <<call, call, call, call, call>>)
        ELSE Only({ found(merged) :
                    merged \in { MergeRows(eq("mb_camp") \o eq("camp")
                                   \o ilike("mb_camp") \o ilike("camp"), {}) } })

\* a lookup that finds nothing
CampsLookupNothing(table, camp, mbCamp) == {}

\* GET camps?select=id&camp=eq.<camp>&mb_camp=eq.<mbCamp>&limit=1: the rows the
\* store may answer with
CampsLookup(table, camp, mbCamp) ==
    { c \in table : c.camp = Str(camp) /\ c.mb_camp = Str(mbCamp) }

\* POST /camps with the parsed body: the responses and tables it may end with.
\* The store stamps a new row with the time of its creation; a PATCH changes
\* the columns of its body only.
handleCampsPost(body, table, lookupOk, writeOk) ==
    LET camp == safeTrim(Get(body, "camp"))
        mbCamp == safeTrim(Coalesce(Get(body, "mb_camp"),
                      Coalesce(Get(body, "delivery_location_name"), Get(body, "name"))))
        address == safeTrim(Get(body, "address"))
        code == safeTrim(Get(body, "code"))
        latitude == parseMaybeNumber(Get(body, "latitude"))
        longitude == parseMaybeNumber(Get(body, "longitude"))
        patch == [camp |-> Str(camp), mb_camp |-> Str(mbCamp), address |-> Str(address)]
                 @@ (IF code # <<>> \/ "code" \in DOMAIN body
                     THEN [code |-> IF code # <<>> THEN Str(code) ELSE Null] ELSE <<>>)
                 @@ (IF latitude # Null \/ "latitude" \in DOMAIN body
                     THEN [latitude |-> latitude] ELSE <<>>)
                 @@ (IF longitude # Null \/ "longitude" \in DOMAIN body
                     THEN [longitude |-> longitude] ELSE <<>>)
        existing == CampsLookup(table, camp, mbCamp)
        lookup(done) == <<Call("camps", "GET", done)>>
        stamps == {0} \cup { c.created_at : c \in table } \cup { c.updated_at : c \in table }
        now == 1 + CHOOSE m \in stamps : \A t \in stamps : t <= m
        inserted == [f \in CampColumns |->
                        IF f = "id" THEN NextId(table)
                        ELSE IF f \in {"created_at", "updated_at"} THEN now
                        ELSE IF f \in DOMAIN patch THEN patch[f] ELSE Null]
        rejected(message) ==
            { [camps |-> table, resp |-> json("POST", body, 400, message, <<>>, <<>>)] }
        failed(calls) ==
            [camps |-> table, resp |-> json("POST", body, 500, "upstream error", <<>>, calls)]
        done(method, row, after) ==
            [camps |-> after,
             resp |-> json("POST", body, 200, "", <<normalizeCampRow(row)>>,
                           lookup(TRUE) \o <<Call("camps", method, TRUE)>>)]
        update(e) ==
            IF ~writeOk THEN failed(lookup(TRUE) \o <<Call("camps", "PATCH", FALSE)>>)
            ELSE done("PATCH", patch @@ e, (table \ {e}) \cup {patch @@ e})
        insert ==
            IF ~writeOk THEN failed(lookup(TRUE) \o <<Call("camps", "POST", FALSE)>>)
            ELSE done("POST", inserted, table \cup {inserted})
    IN  IF camp = <<>> THEN rejected("camp is required")
        ELSE IF mbCamp = <<>> THEN rejected("mb_camp is required")
        ELSE IF address = <<>> THEN rejected("address is required")
        ELSE IF ~lookupOk THEN { failed(lookup(FALSE)) }
        ELSE IF existing # {} THEN { update(e) : e \in existing }
        ELSE { insert }

----------------------------------------------------------------------------
(* /addresses, /share, /osm and the zipcode API *)

\* the addresses table: the worker only reads it
AddressesTable ==
    { [camp |-> Str(CampA), full_code |-> Str(Code12A), address |-> Str(<<80>>),
       center_wgs84 |-> Str(<<91, 49, 44, 50, 93>>)],
      [camp |-> Str(CampA), full_code |-> Str(Code12), address |-> Str(<<81>>),
       center_wgs84 |-> Null] }

\* order=full_code.asc,address.asc
RECURSIVE SortAddresses(_)
SortAddresses(S) ==
    IF S = {} THEN <<>>
    ELSE LET before(r, o) == \/ TextLess(r.full_code.s, o.full_code.s)
                             \/ (r.full_code = o.full_code /\ TextLess(r.address.s, o.address.s))
             m == CHOOSE r \in S : \A o \in S \ {r} : before(r, o)
         IN  <<m>> \o SortAddresses(S \ {m})

handleAddressesGet(q, ok) ==
    LET camp == safeTrim(Get(q, "camp"))
        code == safeTrim(Get(q, "code"))
        call == <<Call("addresses", "GET", ok)>>
        out == SortAddresses({ a \in AddressesTable :
                    /\ a.camp = Str(camp)
                    /\ code = <<>> \/ Like(a.full_code.s, code \o <<37>>) })
    IN  IF camp = <<>> THEN json("GET", q, 400, "camp is required", <<>>, <<>>)
        ELSE IF ~ok THEN json("GET", q, 200, "upstream error", <<>>, call)
        ELSE json("GET", q, 200, "",
                  [i \in 1..Len(out) |->
                      IF IsText(out[i].center_wgs84)
                      THEN [out[i] EXCEPT !.center_wgs84 = parseMaybeJson(@, Null)]
                      ELSE out[i]],
                  call)

\* GET /share: the response with its own headers (cors says whether
\* Access-Control-Allow-Origin is among them).  template is what the fetch of
\* the share template ends with: "ok", "bad" (a status that is not ok) or
\* "offline" (the fetch throws, which the catch of the router answers).
\* the fields of the clock of a request, read in Korean time: getUTCFullYear,
\* getUTCMonth (from 0), getUTCDate, getUTCHours, getUTCMinutes of kst
Clock ==
    [year : {2026}, month : {0, 11}, date : {1, 31}, hours : {0, 23}, minutes : {0, 59}]

\* the stamp without padStart
getKstUnpadded(kst) ==
    DecimalDigits(kst.year) \o DecimalDigits(kst.month + 1) \o DecimalDigits(kst.date)
        \o DecimalDigits(kst.hours) \o DecimalDigits(kst.minutes)

getKstYYYYMMDDHHMM(kst) ==
    LET padStart2(t) == IF Len(t) < 2 THEN <<48>> \o t ELSE t
    IN  DecimalDigits(kst.year) \o padStart2(DecimalDigits(kst.month + 1))
            \o padStart2(DecimalDigits(kst.date)) \o padStart2(DecimalDigits(kst.hours))
            \o padStart2(DecimalDigits(kst.minutes))

\* GET /share at the clock reading kst.  location: the query of the URL of
\* the Location header, which is the URL of the request with v set
handleShareHtml(q, rt, ct, routeOk, campOk, template, kst) ==
    LET v == safeTrim(Get(q, "v"))
        camp == safeTrim(Get(q, "camp"))
        code == safeTrim(Get(q, "code"))
        found == SelectRoutes(rt, camp, code, PREFIX)
        lookup == IF camp = <<>> THEN <<>>
                  ELSE <<Call("subsubroutes", "GET", routeOk)>>
                       \o IF routeOk /\ found # <<>>
                          THEN hydrateRouteRowsWithCamps(<<RowOf(found[1])>>, ct, campOk).calls
                          ELSE <<>>
        answer(status, message, header) ==
            [cors |-> header] @@ json("GET", q, status, message, <<>>, lookup)
    IN  IF ~(Len(v) = 12 /\ \A i \in 1..12 : v[i] \in DigitChars)
        THEN [cors |-> FALSE, location |-> [v |-> Str(getKstYYYYMMDDHHMM(kst))] @@ q]
                @@ json("GET", q, 302, "", <<>>, <<>>)
        ELSE IF template = "offline" THEN answer(500, "fetch failed", TRUE)
        ELSE IF template = "bad" THEN answer(502, "Failed to fetch share template", FALSE)
        ELSE answer(200, "", TRUE)

\* s.split(",")
RECURSIVE Split(_, _)
Split(s, part) ==
    IF s = <<>> THEN <<part>>
    ELSE IF Head(s) = 44 THEN <<part>> \o Split(Tail(s), <<>>)
    ELSE Split(Tail(s), Append(part, Head(s)))

\* GET /osm.  service is what the request to the Overpass service ends with:
\* "ok", "bad" (a status that is not ok, or a body that is not JSON) or
\* "offline" (the fetch throws)
handleOsmGet(q, service) ==
    LET parts == Split(safeTrim(Get(q, "bbox")), <<>>)
    IN  IF Len(parts) # 4 \/ \E i \in DOMAIN parts : ~TextIsNumber(parts[i])
        THEN json("GET", q, 400, "bbox is required: minLng,minLat,maxLng,maxLat", <<>>, <<>>)
        ELSE IF service = "offline" THEN json("GET", q, 500, "fetch failed", <<>>, <<>>)
        ELSE IF service = "bad" THEN json("GET", q, 502, "Overpass error", <<>>, <<>>)
        ELSE json("GET", q, 200, "", <<>>, <<>>)

\* GET / and GET /zip with a zipcode.  service is what the request to the
\* address service ends with: "ok", "bad" (a status that is not ok),
\* "empty" (no boundary for the zipcode) or "offline" (the fetch throws)
handleZipGet(q, service) ==
    IF service = "offline" THEN json("GET", q, 500, "fetch failed", <<>>, <<>>)
    ELSE IF service = "bad" THEN json("GET", q, 502, "address API call failed", <<>>, <<>>)
    ELSE IF service = "empty" THEN json("GET", q, 404, "no boundary data", <<>>, <<>>)
    ELSE json("GET", q, 200, "", <<>>, <<>>)

----------------------------------------------------------------------------
(* The router *)

\* what a request may run into: a failing call to the store (Faults), or the
\* outside service of the request answering badly, with nothing, or not at all
Outages == Faults \cup {"bad", "empty", "offline"}

\* fetch(request, env): the responses the request may end with, each with the
\* tables it leaves.  An exception below the router is answered by its catch:
\* cors(json({error: message}, 500)).
fetch(request, fault, rt, vt, ct, asText) ==
    LET path == request.path
        method == request.method
        q == request.q
        same == [routes |-> rt, vendors |-> vt, camps |-> ct]
        sent(r) == { [resp |-> cors(r)] @@ same }
        each(outcomes) == { [resp |-> cors(o.resp)] @@ o @@ same : o \in outcomes }
        caught(message) == sent(json(method, request.body, 500, message, <<>>, <<>>))
        notAllowed == sent(json(method, q, 405, "Method Not Allowed", <<>>, <<>>))
        service == IF fault \in {"bad", "empty", "offline"} THEN fault ELSE "ok"
        routePost(body) ==
            IF handleRoutePostLookup(body, fault # "lookup") # NoResponse
            THEN sent(handleRoutePostLookup(body, fault # "lookup"))
            ELSE each({ handleRoutePostWrite(body, existing,
                            IF HasNumericId(body) THEN <<>>
                            ELSE <<Call("subsubroutes", "GET", TRUE)>>,
                            rt, vt, ct, asText,
                            fault # "write", fault # "vendors", fault # "camps") :
                        existing \in LookupAnswers(rt, body) })
        withBody(parsed, path1) ==
            IF parsed.threw # "" THEN caught(parsed.threw)
            ELSE IF path1 = "/route" /\ method = "POST" THEN routePost(parsed.body)
            ELSE IF path1 = "/route"
                 THEN each({ handleRouteDelete(parsed.body, rt, vt, ct, asText,
                                fault # "write", fault # "vendors", fault # "camps") })
            ELSE IF path1 = "/camps"
                 THEN each(handleCampsPost(parsed.body, ct, fault # "lookup", fault # "write"))
            ELSE each(handleVendorCreate(parsed.body, vt, fault # "lookup", fault # "write"))
    IN  IF method = "OPTIONS" THEN sent(json(method, q, 204, "", <<>>, <<>>))
        ELSE IF path = "/health" THEN sent(json(method, q, 200, "", <<>>, <<>>))
        ELSE IF path = "/route"
        THEN IF method = "GET"
             THEN sent(handleRouteGet(q, rt, vt, ct,
                                      fault # "lookup", fault # "vendors", fault # "camps"))
             ELSE IF method \in {"POST", "DELETE"}
             THEN \* one readJson for the handler of the request
                  UNION { withBody(parsed, path) : parsed \in { readJson(request.body) } }
             ELSE notAllowed
        ELSE IF path = "/addresses" /\ method = "GET"
        THEN sent(handleAddressesGet(q, fault # "lookup"))
        ELSE IF path \in {"/share", "/share.html"} /\ method = "GET"
        THEN { [resp |-> handleShareHtml(q, rt, ct, fault # "lookup", fault # "camps",
                                         service, kst)] @@ same : kst \in Clock }
        ELSE IF path = "/camps"
        THEN IF method = "GET" THEN sent(handleCampsGet(q, ct, fault # "lookup"))
             ELSE IF method = "POST"
             THEN UNION { withBody(parsed, path) : parsed \in { readJson(request.body) } }
             ELSE notAllowed
        ELSE IF path = "/vendors"
        THEN IF method = "GET" THEN sent(handleVendorsGet(q, vt, fault # "lookup"))
             ELSE IF method = "POST"
             THEN UNION { withBody(parsed, path) : parsed \in { readJson(request.body) } }
             ELSE notAllowed
        ELSE IF path = "/osm" /\ method = "GET" THEN sent(handleOsmGet(q, service))
        ELSE IF path \in {"/", "/zip"} /\ method = "GET"
        THEN IF Trim(ToText(IF Falsy(Get(q, "zipcode")) THEN Str(<<>>) ELSE q.zipcode)) = <<>>
             THEN sent(json(method, q, 400, "zipcode is required", <<>>, <<>>))
             ELSE sent(handleZipGet(q, service))
        ELSE sent(json(method, q, 404, "Not Found", <<>>, <<>>))

----------------------------------------------------------------------------
(* The requests to /vendors and /camps, and the worker serving them *)

MaxVendors == 3     \* rows the vendors table may hold
MaxCamps == 3       \* rows the camps table may hold

Bn5Digits == <<49, 50, 51, 52, 53>>
Bn5Hyphen == <<49, 45, 50, 51, 52, 53>>
NotJson == [text |-> <<123>>]
NoBody == [text |-> <<>>]

Request(path, method, q, body) == [path |-> path, method |-> method, q |-> q, body |-> body]

VendorBodies ==
    { [obj |-> [name |-> n, business_number |-> Str(b)]] :
        n \in {Str(<<86>>), Str(<<87, 32>>)},
        b \in {Bn5Digits, Bn5Hyphen, BnDigits, BnHyphen} }
    \cup { [obj |-> [name |-> Str(<<32>>), business_number |-> Str(Bn5Digits)]],
           [obj |-> [name |-> Str(<<86>>), business_number |-> Str(<<120>>)]],
           [obj |-> [vendor_name |-> Str(<<86>>), vendor_business_number |-> Num(12345)]],
           NotJson, NoBody }

VendorQueries ==
    { <<>>, [q |-> Str(<<32>>)], [q |-> Str(<<118>>)], [q |-> Str(<<49, 50, 51>>)] }

CampBodies ==
    { [obj |-> [camp |-> c, mb_camp |-> m, address |-> a]] :
        c \in {Str(<<32, 65>>), Str(CampB)},
        m \in {Str(HubName), Str(<<104, 117, 98>>)},
        a \in {Str(<<88>>), Str(<<89, 32>>)} }
    \cup { [obj |-> [camp |-> Str(CampA), delivery_location_name |-> Str(HubName),
                     address |-> Str(<<90>>), latitude |-> Str(<<51, 55>>), code |-> Str(<<>>)]],
           [obj |-> [camp |-> Str(CampA), mb_camp |-> Str(HubName)]],
           [obj |-> [mb_camp |-> Str(HubName), address |-> Str(<<88>>)]],
           [obj |-> [camp |-> Str(CampA), address |-> Str(<<88>>)]],
           NotJson, NoBody }

CampQueries ==
    { <<>>, [camp |-> Str(CampA)], [q |-> Str(<<104, 117>>)],
      [q |-> Str(<<97>>), ormb_camp |-> Str(<<72, 117, 98>>)] }

\* the worker answers one of the requests; the response is kept with the
\* request it answers
Serve(requests) ==
    /\ resp = NoResponse
    /\ \E request \in requests, fault \in Outages :
        \E o \in fetch(request, fault, routes, vendors, camps, polygonAsText) :
            /\ Cardinality(o.routes) <= MaxRoutes
            /\ Cardinality(o.vendors) <= MaxVendors
            /\ Cardinality(o.camps) <= MaxCamps
            /\ resp' = [request |-> request] @@ o.resp
            /\ routes' = o.routes
            /\ vendors' = o.vendors
            /\ camps' = o.camps
    /\ UNCHANGED <<polygonAsText, pending>>

\* GET /vendors
VendorsGet == Serve({ Request("/vendors", "GET", q, NoBody) : q \in VendorQueries })

\* POST /vendors
VendorsPost == Serve({ Request("/vendors", "POST", <<>>, b) : b \in VendorBodies })

\* the vendors table is empty when the worker is first deployed
InitVendors ==
    /\ polygonAsText = FALSE
    /\ routes = {}
    /\ vendors = {}
    /\ camps = CampsTable
    /\ pending = [s \in Slots |-> Idle]
    /\ resp = NoResponse

NextVendors == VendorsGet \/ VendorsPost \/ Respond

SpecVendors == InitVendors /\ [][NextVendors]_vars

\* GET /camps
CampsGet == Serve({ Request("/camps", "GET", q, NoBody) : q \in CampQueries })

\* POST /camps
CampsPost == Serve({ Request("/camps", "POST", <<>>, b) : b \in CampBodies })

\* the camps table is empty when the worker is first deployed
InitCamps ==
    /\ polygonAsText = FALSE
    /\ routes = {}
    /\ vendors = VendorsTable
    /\ camps = {}
    /\ pending = [s \in Slots |-> Idle]
    /\ resp = NoResponse

NextCamps == CampsGet \/ CampsPost \/ Respond

SpecCamps == InitCamps /\ [][NextCamps]_vars

----------------------------------------------------------------------------
(* The router with requests to every path *)

RouterRequests ==
    LET RouteBody == [obj |-> [camp |-> Str(CampB), code |-> Str(Code12)]]
        Stamp == <<50, 48, 50, 54, 48, 49, 48, 50, 48, 51, 48, 52>>
    IN
    { Request("/route", "GET", q, NoBody) :
        q \in { g \in GetRequests : g.code = Undef /\ g.mode = Undef } }
    \cup { Request("/route", m, <<>>, b) :
            m \in {"POST", "DELETE", "PUT"}, b \in {RouteBody, NotJson} }
    \cup { Request("/addresses", "GET", q, NoBody) :
            q \in { <<>>, [camp |-> Str(CampA)], [camp |-> Str(CampA), code |-> Str(Code12A)] } }
    \cup { Request(p, "GET", q, NoBody) :
            p \in {"/share", "/share.html"},
            q \in { [camp |-> Str(CampA)], [camp |-> Str(CampA), v |-> Str(Stamp)],
                    [v |-> Str(Code12)] } }
    \cup { Request("/camps", m, <<>>, b) :
            m \in {"POST", "DELETE"},
            b \in { [obj |-> [camp |-> Str(CampA), mb_camp |-> Str(HubName),
                              address |-> Str(<<88>>)]],
                    [obj |-> [camp |-> Str(CampB), mb_camp |-> Str(HubName),
                              address |-> Str(<<89>>)]], NotJson } }
    \cup { Request("/camps", "GET", q, NoBody) : q \in CampQueries }
    \cup { Request("/vendors", m, <<>>, b) :
            m \in {"POST", "PUT"},
            b \in { [obj |-> [name |-> Str(<<87>>), business_number |-> Str(BnDigits)]],
                    NotJson } }
    \cup { Request("/vendors", "GET", q, NoBody) : q \in VendorQueries }
    \cup { Request("/osm", "GET", q, NoBody) :
            q \in { <<>>, [bbox |-> Str(<<49, 44, 50, 44, 51, 44, 52>>)] } }
    \cup { Request(p, "GET", q, NoBody) :
            p \in {"/", "/zip"}, q \in { <<>>, [zipcode |-> Str(<<48, 55>>)] } }
    \cup { Request("/health", "GET", <<>>, NoBody), Request("/route", "OPTIONS", <<>>, NoBody),
           Request("/addresses", "POST", <<>>, NoBody), Request("/none", "GET", <<>>, NoBody) }

\* any request to the worker
Fetch == Serve(RouterRequests)

\* the client follows the redirect it was answered with: a GET of the URL of
\* the Location header
Follow ==
    /\ resp # NoResponse
    /\ "location" \in DOMAIN resp
    /\ \E fault \in Outages :
        \E o \in fetch(Request(resp.request.path, "GET", resp.location, NoBody), fault,
                        routes, vendors, camps, polygonAsText) :
            /\ resp' = [request |-> Request(resp.request.path, "GET", resp.location, NoBody)]
                            @@ o.resp
            /\ routes' = o.routes
            /\ vendors' = o.vendors
            /\ camps' = o.camps
    /\ UNCHANGED <<polygonAsText, pending>>

NextRouter == Fetch \/ Follow \/ Respond

SpecRouter == Init /\ [][NextRouter]_vars

----------------------------------------------------------------------------
(* Properties of the responses of the router *)

\* resp answers a request for path with one of the methods
Asked(r, path, methods) ==
    /\ "request" \in DOMAIN r
    /\ r.request.path = path
    /\ r.request.method \in methods

\* resp answers a request whose handler reads a JSON body
ReadsBody(r) ==
    \/ Asked(r, "/route", {"POST", "DELETE"})
    \/ Asked(r, "/camps", {"POST"})
    \/ Asked(r, "/vendors", {"POST"})

\* the body of the request is text that is not JSON
BadJson(b) == "text" \in DOMAIN b /\ b.text # <<>> /\ ~JsonParse(b.text).ok

\* C11: a request to POST /route, DELETE /route, POST /camps or POST /vendors
\* whose body is not valid JSON is answered with status 400 and the error
\* "Invalid JSON body", and makes no call to the store
C11_InvalidJsonIs400 ==
    (ReadsBody(resp) /\ BadJson(resp.request.body)) =>
        (resp.status = 400 /\ resp.message = "Invalid JSON body" /\ resp.calls = <<>>)

\* C12: every response whose body has an error field has a 4xx or 5xx status
C12_ErrorMeansFailureStatus ==
    ("request" \in DOMAIN resp /\ resp.error) => (resp.status >= 400 /\ resp.status <= 599)

\* the table behind a path of the API
PrimaryTable(path) ==
    IF path = "/route" THEN "subsubroutes"
    ELSE IF path = "/addresses" THEN "addresses"
    ELSE IF path = "/camps" THEN "camps"
    ELSE "vendors"

\* C13: a request to /route, /addresses, /camps or /vendors whose call to the
\* table of its path failed is answered with status 500 and an error, never
\* with 200
C13_StoreFailureIs500 ==
    (/\ "request" \in DOMAIN resp
     /\ resp.request.path \in {"/route", "/addresses", "/camps", "/vendors"}
     /\ Failed(resp, PrimaryTable(resp.request.path)))
        => (resp.status = 500 /\ resp.error)

\* C16: every response carries the header Access-Control-Allow-Origin: *
C16_CorsOnEveryResponse == "request" \in DOMAIN resp => resp.cors

----------------------------------------------------------------------------
(* Properties of /vendors *)

\* C20: a GET /vendors whose q parameter is absent or blank is answered 400
\* with an error field and makes no call to the store
C20_QueryRequired ==
    (Asked(resp, "/vendors", {"GET"}) /\ safeTrim(Get(resp.request.q, "q")) = <<>>) =>
        (resp.status = 400 /\ resp.error /\ resp.calls = <<>>)

\* C17: no two vendor records denote the same business number, whichever way
\* it is spelled (as sent, hyphenated, digits only)
C17_OneRecordPerBusinessNumber ==
    \A a, b \in vendors :
        digitsOnly(a.business_number) = digitsOnly(b.business_number) => a = b

\* C18: a vendor record that POST /vendors inserts has a vendor_code that no
\* record stored before it has
C18_NewVendorCodeIsFree ==
    [][\A n \in vendors' \ vendors :
            (Cardinality(vendors') > Cardinality(vendors)) =>
                \A v \in vendors : Get(v, "vendor_code") # Get(n, "vendor_code")]_vars

----------------------------------------------------------------------------
(* Properties of /camps *)

\* the pair (camp, mb_camp) that a body of POST /camps names
CampPair(body) ==
    [camp |-> Str(safeTrim(Get(body, "camp"))),
     mb_camp |-> Str(safeTrim(Coalesce(Get(body, "mb_camp"),
                     Coalesce(Get(body, "delivery_location_name"), Get(body, "name")))))]

\* the records of the table with the pair
WithPair(table, pair) == { c \in table : c.camp = pair.camp /\ c.mb_camp = pair.mb_camp }

\* C19: the camps table never holds two records with the same (camp, mb_camp),
\* and a POST /camps answered 200 leaves exactly one record with the pair of
\* its body, holding the address of the body: the record that had the pair
\* before, when there was one, and then no record is added and no other
\* record is changed
C19_UpsertByCampAndMbCamp ==
    [][/\ \A a, b \in camps' : (a.camp = b.camp /\ a.mb_camp = b.mb_camp) => a = b
       /\ (Asked(resp', "/camps", {"POST"}) /\ resp'.status = 200) =>
            LET body == resp'.request.body.obj
                before == WithPair(camps, CampPair(body))
                after == WithPair(camps', CampPair(body))
            IN  /\ Cardinality(after) = 1
                /\ \A c \in after : c.address = Str(safeTrim(Get(body, "address")))
                /\ camps' \ after = camps \ before
                /\ before # {} => { c.id : c \in after } = { c.id : c \in before }]_vars

\* a POST /camps has updated the record of its pair while the table holds
\* another record
C19_Witness ==
    /\ Asked(resp, "/camps", {"POST"}) /\ resp.status = 200
    /\ \E i \in DOMAIN resp.calls : resp.calls[i].method = "PATCH"
    /\ Cardinality(camps) >= 2
    /\ \E c \in camps : c.address = Str(<<89>>) /\ c.id = Num(1)

----------------------------------------------------------------------------
(* Searches of the vendors and the camps *)

\* requests that fill the two tables and search them with and without a limit
SearchRequests ==
    { Request("/vendors", "POST", <<>>, [obj |-> [name |-> Str(n), business_number |-> Str(b)]]) :
        <<n, b>> \in { <<<<86>>, Bn5Digits>>, <<<<86, 120>>, BnDigits>>,
                       <<<<120, 86>>, Bn5Hyphen>> } }
    \cup { Request("/camps", "POST", <<>>, [obj |-> [camp |-> Str(c), mb_camp |-> Str(m)]]) :
            <<c, m>> \in { <<CampB, HubName>>, <<CampA, <<98>>>> } }
    \cup { Request(p, "GET", q, NoBody) :
            p \in {"/vendors", "/camps"},
            q \in { [q |-> Str(t)] : t \in {<<118>>, <<98>>, <<104, 117, 98>>} }
                  \cup { [q |-> Str(t), limit |-> Str(n)] :
                            t \in {<<118>>, <<98>>},
                            n \in {<<49>>, <<50>>, <<48>>, <<120>>, <<51, 48, 48>>} } }

Search == Serve(SearchRequests)

NextSearch == Search \/ Respond

SpecSearch == InitVendors /\ [][NextSearch]_vars

\* resp answers a search: a GET of /vendors or /camps with a query q
Searched(r) ==
    /\ Asked(r, "/vendors", {"GET"}) \/ Asked(r, "/camps", {"GET"})
    /\ safeTrim(Get(r.request.q, "q")) # <<>>
    /\ r.status = 200

\* how well a row of a search matches: 3 exact, 2 prefix, 1 substring, of
\* either searched column
MatchClass(r, row) ==
    LET qLower == ToLowerCase(safeTrim(r.request.q.q))
        cols == IF r.request.path = "/vendors" THEN {"name", "business_number"}
                ELSE {"mb_camp", "camp"}
        text(f) == ToLowerCase(safeTrim(Get(row, f)))
    IN  IF \E f \in cols : text(f) = qLower THEN 3
        ELSE IF \E f \in cols : StartsWith(text(f), qLower) THEN 2
        ELSE IF \E f \in cols : Includes(text(f), qLower) THEN 1
        ELSE 0

SearchScore(r, row) ==
    LET qLower == ToLowerCase(safeTrim(r.request.q.q))
    IN  IF r.request.path = "/vendors" THEN scoreVendorSearch(row, qLower)
        ELSE scoreCampSearchMatch(row, qLower)

----------------------------------------------------------------------------
(* The join of the route rows with the camps table *)

\* the camp record hydrateRouteRowsWithCamps finds for a stored route record
CampOf(record) ==
    loadCampIndex(camps, safeTrim(record.camp), TRUE,
                  normalizeCampKey(Str(safeTrim(record.delivery_location_name))))

\* resp is a GET /route answered 200 whose camps queries were answered
Hydrated(r) == r.op = "GET" /\ r.status = 200 /\ ~Failed(r, "camps")

\* C22: when a camp record matches the delivery_location_name of a route
\* row, the row of the response carries the address, latitude and longitude
\* of the camp record (where the record has them), whatever the route row
\* stores
C22_CampValuesWin ==
    Hydrated(resp) =>
        \A i \in DOMAIN resp.rows :
            LET matched == CampOf(resp.primary[i])
                row == resp.rows[i]
            IN  (safeTrim(resp.primary[i].delivery_location_name) # <<>> /\ matched # Undef) =>
                    /\ safeTrim(matched.address) # <<>> =>
                            row.delivery_location_address = Str(safeTrim(matched.address))
                    /\ parseMaybeNumber(matched.latitude) # Null =>
                            row.delivery_location_lat = parseMaybeNumber(matched.latitude)
                    /\ parseMaybeNumber(matched.longitude) # Null =>
                            row.delivery_location_lng = parseMaybeNumber(matched.longitude)

\* C22 as amended: when a camp record matches, the row of the response
\* carries the trimmed address of the camp record (null when the record has
\* none) whatever address the route row stores, and carries the latitude and
\* longitude of the camp record only where the route row stores none: a
\* stored coordinate is kept
C22_CampAddressWinsCoordinatesFill ==
    Hydrated(resp) =>
        \A i \in DOMAIN resp.rows :
            LET stored == resp.primary[i]
                matched == CampOf(stored)
                row == resp.rows[i]
                none(v) == v \in {Null, Undef, Str(<<>>)}
                filled(own, theirs) ==
                    IF none(own) /\ parseMaybeNumber(theirs) # Null
                    THEN parseMaybeNumber(theirs) ELSE own
            IN  (safeTrim(stored.delivery_location_name) # <<>> /\ matched # Undef) =>
                    /\ row.delivery_location_address =
                            IF safeTrim(matched.address) # <<>>
                            THEN Str(safeTrim(matched.address)) ELSE Null
                    /\ row.delivery_location_lat =
                            filled(stored.delivery_location_lat, matched.latitude)
                    /\ row.delivery_location_lng =
                            filled(stored.delivery_location_lng, matched.longitude)

\* a row that stores the stale address "O" and the latitude 38 comes back
\* with the address "N" of its camp record and its own latitude, not the
\* record's 37
C22_Witness ==
    /\ Hydrated(resp)
    /\ \E i \in DOMAIN resp.rows :
          /\ CampOf(resp.primary[i]) # Undef
          /\ resp.primary[i].delivery_location_address = Str(<<79>>)
          /\ resp.rows[i].delivery_location_address = Str(<<78>>)
          /\ CampOf(resp.primary[i]).latitude = Str(<<51, 55>>)
          /\ resp.primary[i].delivery_location_lat = Num(38)
          /\ resp.rows[i].delivery_location_lat = Num(38)

\* C26: the stored delivery_location_address of a route row is replaced only
\* when a camp record matches the row's delivery_location_name: a row that
\* names a delivery location for which no camp record is found, or whose
\* camps query failed, is returned with the address it stores
C26_AddressKeptWithoutMatch ==
    (resp.op = "GET" /\ resp.status = 200) =>
        \A i \in DOMAIN resp.rows :
            (/\ safeTrim(resp.primary[i].delivery_location_name) # <<>>
             /\ CampOf(resp.primary[i]) = Undef \/ Failed(resp, "camps")) =>
                resp.rows[i].delivery_location_address
                    = resp.primary[i].delivery_location_address

\* C23: a POST /route answered 200 whose body carries a
\* delivery_location_address (with camp, code and delivery_location_name)
\* leaves that address on the route record it wrote, which is what a later
\* GET /route for the camp and code reads
C23_PostedAddressSaved ==
    (/\ resp.op = "POST" /\ resp.status = 200 /\ resp.primary # <<>>
     /\ IsText(Get(resp.req, "delivery_location_address"))
     /\ safeTrim(Get(resp.req, "delivery_location_name")) # <<>>) =>
        \A r \in routes :
            r.id = resp.primary[1].id =>
                r.delivery_location_address = resp.req.delivery_location_address

----------------------------------------------------------------------------
(* The redirect of /share *)

\* v is exactly 12 digits
IsStamp(v) == IsText(v) /\ Len(v.s) = 12 /\ \A i \in 1..12 : v.s[i] \in DigitChars

\* C24: a GET of /share or /share.html whose v is missing or is not exactly
\* 12 digits is answered 302 with the Location of the same path and query,
\* every other parameter kept and v set to 12 digits; the response a client
\* gets by following that Location is not a redirect, so a client is
\* redirected at most once
C24_RedirectOnce ==
    [][ (Asked(resp', "/share", {"GET"}) \/ Asked(resp', "/share.html", {"GET"})) =>
            LET q == resp'.request.q
            IN  /\ ~IsStamp(Str(safeTrim(Get(q, "v")))) =>
                    /\ resp'.status = 302
                    /\ IsStamp(resp'.location.v)
                    /\ DOMAIN resp'.location = DOMAIN q \cup {"v"}
                    /\ \A f \in DOMAIN q \ {"v"} : resp'.location[f] = q[f]
                /\ resp.status = 302 =>
                    /\ resp'.request.path = resp.request.path
                    /\ resp'.request.q = resp.location
                    /\ resp'.status # 302 ]_vars

\* the client that asked /share with v=12 and a camp has followed the
\* redirect and holds the answer to the request with the 12-digit v
C24_Witness ==
    /\ Asked(resp, "/share", {"GET"})
    /\ resp.status = 200
    /\ IsStamp(resp.request.q.v)
    /\ resp.request.q.v.s[5] = 49 /\ resp.request.q.v.s[9] = 48
    /\ Get(resp.request.q, "camp") = Str(CampA)

----------------------------------------------------------------------------
(* The pure helpers applied to values *)

MaxSeedLen == 3     \* length of the short seeds

\* generateColor of a seed: null, undefined, a short text, or a short text
\* after "GydZG_" (whose hash is -2^31) or "zzzzzz"
ColorOfSeed ==
    /\ resp = NoResponse
    /\ \E head \in {<<>>, <<71, 121, 100, 90, 71, 95>>, <<122, 122, 122, 122, 122, 122>>},
          tail \in UNION { [1..n -> {48, 49, 65, 97, 124}] : n \in 0..MaxSeedLen } :
        \E seed \in {Null, Undef, Str(head \o tail)} :
            resp' = Response("generateColor", seed, 200, <<generateColor(seed)>>, <<>>, <<>>)
    /\ UNCHANGED <<routes, vendors, camps, polygonAsText, pending>>

\* parseMaybeNumber of a value
NumberOfValue ==
    /\ resp = NoResponse
    /\ \E v \in {Null, Undef, Num(0), Num(37)}
                \cup { Str(t) : t \in { <<>>, <<32>>, <<32, 32>>, <<48>>, <<51, 55>>,
                                        <<32, 51, 55, 32>>, <<120>>, <<51, 120>>,
                                        <<78, 97, 78>>,
                                        <<73, 110, 102, 105, 110, 105, 116, 121>> } } :
        resp' = Response("parseMaybeNumber", v, 200, <<parseMaybeNumber(v)>>, <<>>, <<>>)
    /\ UNCHANGED <<routes, vendors, camps, polygonAsText, pending>>

NextValues == ColorOfSeed \/ NumberOfValue \/ Respond

SpecValues == Init /\ [][NextValues]_vars

C29_NumberOrNull ==
    resp.op = "parseMaybeNumber" =>
        LET v == resp.req
            blank == IsNullish(v) \/ (IsText(v) /\ Trim(v.s) = <<>>)
            numeric == \/ v.t = "num"
                       \/ /\ IsText(v) /\ Trim(v.s) # <<>>
                          /\ \A i \in DOMAIN Trim(v.s) : Trim(v.s)[i] \in DigitChars
        IN  /\ (blank \/ ~numeric) => resp.rows[1] = Null
            /\ numeric => resp.rows[1].t = "num"
            /\ blank => resp.rows[1] # Num(0)

----------------------------------------------------------------------------
(* The upstream calls of GET /route *)

\* the calls of the response to the table
CallsTo(r, table) == { i \in DOMAIN r.calls : r.calls[i].table = table }

\* C27: a GET /route that reaches the store issues exactly one call to the
\* route table, at most one call to the vendors table and at most one call to
\* the camps table for every distinct camp among the rows returned, however
\* many rows there are
C27_NoCallPerRow ==
    (resp.op = "GET" /\ resp.status # 400) =>
        /\ Cardinality(CallsTo(resp, "subsubroutes")) = 1
        /\ resp.calls[1].table = "subsubroutes"
        /\ Cardinality(CallsTo(resp, "vendors")) <= 1
        /\ Cardinality(CallsTo(resp, "camps"))
                <= Cardinality({ resp.primary[i].camp : i \in DOMAIN resp.primary })

\* a GET that returned two rows of one camp, both with a vendor and a
\* delivery location, with three calls in all
C27_Witness ==
    /\ resp.op = "GET" /\ resp.status = 200
    /\ Len(resp.rows) = 2
    /\ \A i \in 1..2 :
          /\ safeTrim(resp.rows[i].delivery_location_name) # <<>>
          /\ IsText(resp.rows[i].vendor_business_number_1w)
    /\ Len(resp.calls) = 3
    /\ Cardinality(CallsTo(resp, "camps")) = 1

----------------------------------------------------------------------------
(* Which camp record a route row is joined with *)

\* the camp records that qualify for a stored route record: the same camp,
\* and an mb_camp equal to the delivery_location_name once both are trimmed
\* and lowercased
Qualifying(record) ==
    { c \in camps :
        /\ c.camp = record.camp
        /\ IsText(c.mb_camp) /\ IsText(record.delivery_location_name)
        /\ ToLowerCase(Trim(c.mb_camp.s))
              = ToLowerCase(Trim(record.delivery_location_name.s)) }

\* c comes before o in the order updated_at desc, created_at desc, id desc
MoreRecent(c, o) ==
    \/ c.updated_at > o.updated_at
    \/ c.updated_at = o.updated_at /\ c.created_at > o.created_at
    \/ c.updated_at = o.updated_at /\ c.created_at = o.created_at /\ c.id.n > o.id.n

----------------------------------------------------------------------------
(* Writes that address no record *)

\* C30: a DELETE /route, or a POST /route with a numeric id, that addresses
\* no record of the route table leaves the table as it was, and when the
\* store answers its PATCH the handler answers 200 without a row
C30_NoTargetNoChange ==
    [][ (/\ resp = NoResponse
         /\ resp'.op \in {"POST", "DELETE"} /\ resp'.status # 400
         /\ resp'.op = "POST" => HasNumericId(resp'.req)
         /\ Addressed(routes, resp'.req) = {}) =>
            /\ routes' = routes
            /\ (\A i \in DOMAIN resp'.calls : resp'.calls[i].ok) =>
                    (resp'.status = 200 /\ resp'.rows = <<>>) ]_vars

\* POST /route with the id 2 while the table holds the record 1 alone, and
\* DELETE /route of a camp and code no record has, were answered 200 without
\* a row
C30_Witness ==
    /\ resp.op \in {"POST", "DELETE"} /\ resp.status = 200 /\ resp.rows = <<>>
    /\ resp.calls = <<Call("subsubroutes", "PATCH", TRUE)>>
    /\ Addressed(routes, resp.req) = {}
    /\ routes # {}
    /\ resp.op = "POST" => resp.req.id = Num(2)

====
